---- MODULE Spec2Model ----
(***************************************************************************)
(* A model of the chess rule engine of web-chess-js: the Board, the piece  *)
(* movement rules, the Game controller (selection, move execution,         *)
(* promotion, status) and the GameHistory snapshot log.                    *)
(*                                                                         *)
(* A square is the integer row * 8 + col (row 0 is black's back rank, row  *)
(* 7 white's, as in the source).  A piece's position is the square that    *)
(* holds it: the source keeps it in the piece as well, always equal to the *)
(* square's coordinates, so the model does not store it twice.             *)
(***************************************************************************)
EXTENDS Integers, Sequences, FiniteSets, TLC

BOARD_SIZE == 8

White == "white"
Black == "black"

Rows == 0 .. (BOARD_SIZE - 1)
Squares == 0 .. (BOARD_SIZE * BOARD_SIZE - 1)

\* IPosition {row, col} as one integer; NoPos is the source's null position.
Pos(row, col) == row * BOARD_SIZE + col
Row(sq) == sq \div BOARD_SIZE
Col(sq) == sq % BOARD_SIZE
NoPos == 0 - 1

\* The null of a square (Piece | null) and a piece value (IPieceData).
NoPiece == [type |-> "none", color |-> "none", hasMoved |-> FALSE]
Piece(type, color, hasMoved) == [type |-> type, color |-> color, hasMoved |-> hasMoved]

Opponent(color) == IF color = White THEN Black ELSE White

Abs(n) == IF n < 0 THEN 0 - n ELSE n

\* Array.some over a MoveList
Contains(moves, sq) == \E i \in 1 .. Len(moves) : moves[i] = sq

ToSet(moves) == {moves[i] : i \in 1 .. Len(moves)}

RECURSIVE Flatten(_)
Flatten(lists) ==
    IF lists = <<>> THEN <<>> ELSE Head(lists) \o Flatten(Tail(lists))

(***************************************************************************)
(* Piece: the shared movement primitives.                                  *)
(***************************************************************************)
isValidPosition(row, col) ==
    row >= 0 /\ row < BOARD_SIZE /\ col >= 0 /\ col < BOARD_SIZE

isSquareEmpty(squares, row, col) ==
    isValidPosition(row, col) /\ squares[Pos(row, col)] = NoPiece

isOpponentPiece(squares, color, row, col) ==
    /\ isValidPosition(row, col)
    /\ squares[Pos(row, col)] # NoPiece
    /\ squares[Pos(row, col)].color # color

isOwnPiece(squares, color, row, col) ==
    /\ isValidPosition(row, col)
    /\ squares[Pos(row, col)] # NoPiece
    /\ squares[Pos(row, col)].color = color

\* The loop of getSlidingMoves, from the square (row, col) onwards.
RECURSIVE SlideFrom(_, _, _, _, _)
SlideFrom(squares, color, row, col, dir) ==
    IF ~isValidPosition(row, col) THEN <<>>
    ELSE IF isSquareEmpty(squares, row, col)
         THEN <<Pos(row, col)>> \o SlideFrom(squares, color, row + dir[1], col + dir[2], dir)
    ELSE IF isOpponentPiece(squares, color, row, col) THEN <<Pos(row, col)>>
    ELSE <<>>

getSlidingMoves(squares, from, dir) ==
    SlideFrom(squares, squares[from].color, Row(from) + dir[1], Col(from) + dir[2], dir)

getSingleStepMoves(squares, from, offsets) ==
    LET color == squares[from].color
        Ok(off) == /\ isValidPosition(Row(from) + off[1], Col(from) + off[2])
                   /\ ~isOwnPiece(squares, color, Row(from) + off[1], Col(from) + off[2])
        Step(i) == IF Ok(offsets[i])
                   THEN <<Pos(Row(from) + offsets[i][1], Col(from) + offsets[i][2])>>
                   ELSE <<>>
    IN  Flatten([i \in 1 .. Len(offsets) |-> Step(i)])

(***************************************************************************)
(* The six piece types.                                                    *)
(***************************************************************************)
KING_MOVE_OFFSETS ==
    << <<-1, 0>>, <<1, 0>>, <<0, -1>>, <<0, 1>>, <<-1, -1>>, <<-1, 1>>, <<1, -1>>, <<1, 1>> >>

KNIGHT_MOVE_OFFSETS ==
    << <<-2, -1>>, <<-2, 1>>, <<-1, -2>>, <<-1, 2>>, <<1, -2>>, <<1, 2>>, <<2, -1>>, <<2, 1>> >>

ROOK_DIRECTIONS == << <<-1, 0>>, <<1, 0>>, <<0, -1>>, <<0, 1>> >>

BISHOP_DIRECTIONS == << <<-1, -1>>, <<-1, 1>>, <<1, -1>>, <<1, 1>> >>

QUEEN_DIRECTIONS ==
    << <<-1, 0>>, <<1, 0>>, <<0, -1>>, <<0, 1>>, <<-1, -1>>, <<-1, 1>>, <<1, -1>>, <<1, 1>> >>

SlidingMoves(squares, from, dirs) ==
    Flatten([i \in 1 .. Len(dirs) |-> getSlidingMoves(squares, from, dirs[i])])

\* Pawn.getPossibleMoves: Pawn.ts is not among the sources; spec 4.1.
PawnDirection(color) == IF color = White THEN 0 - 1 ELSE 1

PawnMoves(squares, from, enPassantTarget) ==
    LET p == squares[from]
        d == PawnDirection(p.color)
        r == Row(from)
        c == Col(from)
        one == IF isSquareEmpty(squares, r + d, c) THEN <<Pos(r + d, c)>> ELSE <<>>
        two == IF /\ ~p.hasMoved
                  /\ isSquareEmpty(squares, r + d, c)
                  /\ isSquareEmpty(squares, r + 2 * d, c)
               THEN <<Pos(r + 2 * d, c)>> ELSE <<>>
        Cap(cc) == IF isOpponentPiece(squares, p.color, r + d, cc)
                   THEN <<Pos(r + d, cc)>> ELSE <<>>
        Ep(cc) == IF /\ enPassantTarget # NoPos
                     /\ isValidPosition(r + d, cc)
                     /\ enPassantTarget = Pos(r + d, cc)
                  THEN <<enPassantTarget>> ELSE <<>>
    IN  one \o two \o Cap(c - 1) \o Cap(c + 1) \o Ep(c - 1) \o Ep(c + 1)

\* Pawn.canPromote: the farthest rank of the pawn's colour (spec 4.4).
canPromote(color, row) == row = (IF color = White THEN 0 ELSE BOARD_SIZE - 1)

\* piece.getPossibleMoves(board, enPassantTarget), dispatched on the type.
getPossibleMoves(squares, from, enPassantTarget) ==
    LET t == squares[from].type
    IN  CASE t = "pawn" -> PawnMoves(squares, from, enPassantTarget)
          [] t = "knight" -> getSingleStepMoves(squares, from, KNIGHT_MOVE_OFFSETS)
          [] t = "king" -> getSingleStepMoves(squares, from, KING_MOVE_OFFSETS)
          [] t = "rook" -> SlidingMoves(squares, from, ROOK_DIRECTIONS)
          [] t = "bishop" -> SlidingMoves(squares, from, BISHOP_DIRECTIONS)
          [] t = "queen" -> SlidingMoves(squares, from, QUEEN_DIRECTIONS)
          [] OTHER -> <<>>

(***************************************************************************)
(* Board: squares, en-passant target, castling rights.                     *)
(***************************************************************************)
AllCastlingRights ==
    [whiteKingside |-> TRUE, whiteQueenside |-> TRUE,
     blackKingside |-> TRUE, blackQueenside |-> TRUE]

BackRank == <<"rook", "knight", "bishop", "queen", "king", "bishop", "knight", "rook">>

\* Board.setupStandardPosition with the pieces' createStartingPosition(s)
setupStandardPosition ==
    [squares |->
        [sq \in Squares |->
            CASE Row(sq) = 0 -> Piece(BackRank[Col(sq) + 1], Black, FALSE)
              [] Row(sq) = 1 -> Piece("pawn", Black, FALSE)
              [] Row(sq) = 6 -> Piece("pawn", White, FALSE)
              [] Row(sq) = 7 -> Piece(BackRank[Col(sq) + 1], White, FALSE)
              [] OTHER -> NoPiece],
     enPassantTarget |-> NoPos,
     castlingRights |-> AllCastlingRights]

getPiece(b, pos) ==
    IF pos \in Squares THEN b.squares[pos] ELSE NoPiece

setPieceAt(b, pos, piece) ==
    IF pos \in Squares THEN [b EXCEPT !.squares[pos] = piece] ELSE b

\* removePiece returns the piece too; callers read it with getPiece first.
removePiece(b, pos) ==
    IF getPiece(b, pos) # NoPiece THEN [b EXCEPT !.squares[pos] = NoPiece] ELSE b

\* A variant that, when a king moves, writes the four flags afresh: those of the
\* king's colour false, the others true.
updateCastlingRightsAfresh(rights, piece, from) ==
    LET afterKing ==
            IF piece.type = "king"
            THEN IF piece.color = White
                 THEN [whiteKingside |-> FALSE, whiteQueenside |-> FALSE,
                       blackKingside |-> TRUE, blackQueenside |-> TRUE]
                 ELSE [whiteKingside |-> TRUE, whiteQueenside |-> TRUE,
                       blackKingside |-> FALSE, blackQueenside |-> FALSE]
            ELSE rights
    IN  IF piece.type = "rook"
        THEN IF piece.color = White
             THEN IF Col(from) = 0 THEN [afterKing EXCEPT !.whiteQueenside = FALSE]
                  ELSE IF Col(from) = 7 THEN [afterKing EXCEPT !.whiteKingside = FALSE]
                  ELSE afterKing
             ELSE IF Col(from) = 0 THEN [afterKing EXCEPT !.blackQueenside = FALSE]
                  ELSE IF Col(from) = 7 THEN [afterKing EXCEPT !.blackKingside = FALSE]
                  ELSE afterKing
        ELSE afterKing

updateCastlingRightsAfterMove(rights, piece, from) ==
    LET afterKing ==
            IF piece.type = "king"
            THEN IF piece.color = White
                 THEN [rights EXCEPT !.whiteKingside = FALSE, !.whiteQueenside = FALSE]
                 ELSE [rights EXCEPT !.blackKingside = FALSE, !.blackQueenside = FALSE]
            ELSE rights
    IN  IF piece.type = "rook"
        THEN IF piece.color = White
             THEN IF Col(from) = 0 THEN [afterKing EXCEPT !.whiteQueenside = FALSE]
                  ELSE IF Col(from) = 7 THEN [afterKing EXCEPT !.whiteKingside = FALSE]
                  ELSE afterKing
             ELSE IF Col(from) = 0 THEN [afterKing EXCEPT !.blackQueenside = FALSE]
                  ELSE IF Col(from) = 7 THEN [afterKing EXCEPT !.blackKingside = FALSE]
                  ELSE afterKing
        ELSE afterKing

\* Piece.setPosition marks the piece as moved.
movePiece(b, from, to) ==
    LET piece == getPiece(b, from)
    IN  IF piece = NoPiece THEN b
        ELSE [b EXCEPT !.squares = [@ EXCEPT ![from] = NoPiece,
                                             ![to] = [piece EXCEPT !.hasMoved = TRUE]],
                       !.castlingRights = updateCastlingRightsAfterMove(@, piece, from)]

\* The first king of the colour in row-major order, NoPos when there is none.
findKing(b, color) ==
    LET kings == {sq \in Squares : b.squares[sq].type = "king" /\ b.squares[sq].color = color}
    IN  IF kings = {} THEN NoPos ELSE CHOOSE k \in kings : \A o \in kings : k <= o

RECURSIVE PiecesFrom(_, _, _)
PiecesFrom(b, color, sq) ==
    IF sq \notin Squares THEN <<>>
    ELSE (IF b.squares[sq] # NoPiece /\ b.squares[sq].color = color THEN <<sq>> ELSE <<>>)
         \o PiecesFrom(b, color, sq + 1)

\* A variant whose scan starts at the second row.
getPiecesByColorFromSecondRow(b, color) == PiecesFrom(b, color, BOARD_SIZE)

\* The squares of the colour's pieces, row-major.
getPiecesByColor(b, color) == PiecesFrom(b, color, 0)

\* Board.clone and Board.fromBoardState copy pieces, rights and target by value.
clone(b) ==
    [squares |-> [sq \in Squares |-> b.squares[sq]],
     enPassantTarget |-> b.enPassantTarget,
     castlingRights |-> b.castlingRights]

\* A variant that rebuilds the pieces only (Board.fromData alone).
fromDataOnly(boardState) ==
    [squares |-> [sq \in Squares |-> boardState.squares[sq]],
     enPassantTarget |-> NoPos,
     castlingRights |-> AllCastlingRights]

fromBoardState(boardState) ==
    [squares |-> [sq \in Squares |-> boardState.squares[sq]],
     enPassantTarget |-> boardState.enPassantTarget,
     castlingRights |-> boardState.castlingRights]

(***************************************************************************)
(* GameHistory and NotationConverter.                                      *)
(* A notation string is the sequence of its parts.  Date.now() of a        *)
(* snapshot is not modelled: nothing reads it.                             *)
(***************************************************************************)
NoMove == [from |-> NoPos, to |-> NoPos, type |-> "none",
           capturedPiece |-> "none", promotionPiece |-> "none"]

FILES == <<"a", "b", "c", "d", "e", "f", "g", "h">>
RANKS == <<"8", "7", "6", "5", "4", "3", "2", "1">>

positionToAlgebraic(row, col) == <<FILES[col + 1], RANKS[row + 1]>>

\* piece.charAt(0).toUpperCase()
FirstLetterUpper(type) ==
    CASE type = "pawn" -> "P" [] type = "rook" -> "R" [] type = "knight" -> "K"
      [] type = "bishop" -> "B" [] type = "queen" -> "Q" [] type = "king" -> "K"
      [] OTHER -> "?"

moveToNotation(move, piece, isCapture, isCheck, isCheckmate) ==
    IF move.type = "castle_kingside"
    THEN IF isCheckmate THEN <<"O-O#">> ELSE IF isCheck THEN <<"O-O+">> ELSE <<"O-O">>
    ELSE IF move.type = "castle_queenside"
    THEN IF isCheckmate THEN <<"O-O-O#">> ELSE IF isCheck THEN <<"O-O-O+">> ELSE <<"O-O-O">>
    ELSE (IF piece = "pawn" THEN <<>> ELSE <<FirstLetterUpper(piece)>>)
         \o (IF isCapture /\ piece = "pawn" THEN <<FILES[Col(move.from) + 1]>> ELSE <<>>)
         \o (IF isCapture THEN <<"x">> ELSE <<>>)
         \o positionToAlgebraic(Row(move.to), Col(move.to))
         \o (IF move.promotionPiece # "none"
             THEN <<"=", FirstLetterUpper(move.promotionPiece)>> ELSE <<>>)
         \o (IF isCheckmate THEN <<"#">> ELSE IF isCheck THEN <<"+">> ELSE <<>>)

\* JSON.parse(JSON.stringify(state)): a GameState holds only strings, numbers,
\* booleans, null, arrays and plain objects, which the round trip rebuilds
\* field by field; an undefined capturedPiece/promotionPiece is dropped and
\* reads as undefined again ("none" here).
cloneGameState(state) ==
    [status |-> state.status,
     currentPlayer |-> state.currentPlayer,
     board |-> [squares |-> [sq \in Squares |-> state.board.squares[sq]],
                currentPlayer |-> state.board.currentPlayer,
                enPassantTarget |-> state.board.enPassantTarget,
                castlingRights |-> state.board.castlingRights,
                halfMoveClock |-> state.board.halfMoveClock,
                fullMoveNumber |-> state.board.fullMoveNumber],
     moveHistory |-> [i \in 1 .. Len(state.moveHistory) |-> state.moveHistory[i]],
     capturedPieces |-> [white |-> state.capturedPieces.white,
                         black |-> state.capturedPieces.black]]

\* new GameHistory() and clear(); currentSnapshotIndex is 0-based as in the source,
\* snapshot i of the source is snapshots[i + 1].
EmptyHistory == [snapshots |-> <<>>, currentSnapshotIndex |-> 0]

\* A variant that keeps the snapshots beyond the cursor.
addSnapshotKeepingFuture(h, move, gameState, notation) ==
    LET snapshot == [moveNumber |-> Len(h.snapshots), move |-> move,
                     gameState |-> cloneGameState(gameState), notation |-> notation]
    IN  [snapshots |-> Append(h.snapshots, snapshot), currentSnapshotIndex |-> Len(h.snapshots)]

\* A variant whose snapshots hold the live state itself: the snapshot under the
\* cursor follows the state that is being recorded.
addSnapshotSharingState(h, move, gameState, notation) ==
    LET kept == IF h.currentSnapshotIndex < Len(h.snapshots) - 1
                THEN SubSeq(h.snapshots, 1, h.currentSnapshotIndex + 1)
                ELSE h.snapshots
        shared == [i \in 1 .. Len(kept) |->
                      IF i = h.currentSnapshotIndex + 1
                      THEN [kept[i] EXCEPT !.gameState = gameState]
                      ELSE kept[i]]
        snapshot == [moveNumber |-> Len(kept), move |-> move,
                     gameState |-> cloneGameState(gameState), notation |-> notation]
    IN  [snapshots |-> Append(shared, snapshot), currentSnapshotIndex |-> Len(kept)]

\* A variant that numbers the snapshot before the log is cut.
addSnapshotNumberedFirst(h, move, gameState, notation) ==
    LET kept == IF h.currentSnapshotIndex < Len(h.snapshots) - 1
                THEN SubSeq(h.snapshots, 1, h.currentSnapshotIndex + 1)
                ELSE h.snapshots
        snapshot == [moveNumber |-> Len(h.snapshots), move |-> move,
                     gameState |-> cloneGameState(gameState), notation |-> notation]
    IN  [snapshots |-> Append(kept, snapshot), currentSnapshotIndex |-> Len(kept)]

addSnapshot(h, move, gameState, notation) ==
    LET kept == IF h.currentSnapshotIndex < Len(h.snapshots) - 1
                THEN SubSeq(h.snapshots, 1, h.currentSnapshotIndex + 1)
                ELSE h.snapshots
        snapshot == [moveNumber |-> Len(kept), move |-> move,
                     gameState |-> cloneGameState(gameState), notation |-> notation]
    IN  [snapshots |-> Append(kept, snapshot), currentSnapshotIndex |-> Len(kept)]

\* goToSnapshot and its callers return [h: the history afterwards, ok: a state
\* was returned, state: that state].
\* A variant that moves the cursor before it checks the range.
goToSnapshotMovingCursor(h, index) ==
    IF index < 0 \/ index >= Len(h.snapshots)
    THEN [h |-> [h EXCEPT !.currentSnapshotIndex = index], ok |-> FALSE]
    ELSE [h |-> [h EXCEPT !.currentSnapshotIndex = index], ok |-> TRUE,
          state |-> cloneGameState(h.snapshots[index + 1].gameState)]

goToSnapshot(h, index) ==
    IF index < 0 \/ index >= Len(h.snapshots)
    THEN [h |-> h, ok |-> FALSE]
    ELSE [h |-> [h EXCEPT !.currentSnapshotIndex = index], ok |-> TRUE,
          state |-> cloneGameState(h.snapshots[index + 1].gameState)]

goBack(h) ==
    IF h.currentSnapshotIndex > 0 THEN goToSnapshot(h, h.currentSnapshotIndex - 1)
    ELSE [h |-> h, ok |-> FALSE]

goForward(h) ==
    IF h.currentSnapshotIndex < Len(h.snapshots) - 1
    THEN goToSnapshot(h, h.currentSnapshotIndex + 1)
    ELSE [h |-> h, ok |-> FALSE]

historyGoToLatest(h) ==
    IF Len(h.snapshots) > 0 THEN goToSnapshot(h, Len(h.snapshots) - 1)
    ELSE [h |-> h, ok |-> FALSE]

historyGoToStart(h) ==
    IF Len(h.snapshots) > 0 THEN goToSnapshot(h, 0) ELSE [h |-> h, ok |-> FALSE]

isAtLatest(h) == h.currentSnapshotIndex = Len(h.snapshots) - 1

(***************************************************************************)
(* Game: a game g is the record of the controller's fields                 *)
(*   board, currentPlayer, status, moveHistory, capturedPieces,            *)
(*   selectedPiece (the square of the selected piece or NoPos),            *)
(*   pendingPromotion, history.                                            *)
(* An operation returns [g: the game afterwards, r: the value returned].   *)
(***************************************************************************)
NoPromotion == [position |-> NoPos, color |-> "none"]

\* IMoveResult; absent fields read "" / FALSE / NoPos / NoMove.
Failure(error) ==
    [success |-> FALSE, error |-> error, needsPromotion |-> FALSE,
     promotionPosition |-> NoPos, move |-> NoMove]

Success(move, needsPromotion, promotionPosition) ==
    [success |-> TRUE, error |-> "", needsPromotion |-> needsPromotion,
     promotionPosition |-> promotionPosition, move |-> move]

isSquareAttackedOnBoard(b, row, col, defendingColor) ==
    LET opponentColor == Opponent(defendingColor)
    IN  \E p \in Squares :
            /\ b.squares[p] # NoPiece
            /\ b.squares[p].color = opponentColor
            /\ Contains(getPossibleMoves(b.squares, p, NoPos), Pos(row, col))

isKingInCheckOnBoard(b, color) ==
    LET king == findKing(b, color)
    IN  IF king = NoPos THEN FALSE
        ELSE isSquareAttackedOnBoard(b, Row(king), Col(king), color)

isSquareAttacked(g, row, col, defendingColor) ==
    isSquareAttackedOnBoard(g.board, row, col, defendingColor)

isInCheck(g, color) == isKingInCheckOnBoard(g.board, color)

\* King: castling, derived apart from getPossibleMoves.  The callback the Game
\* hands to getCastlingMoves is its own isSquareAttacked for the king's colour on
\* the board b, so the castling operators take b and ask isSquareAttackedOnBoard.
\* A variant that does not look at the squares between king and rook.
checkKingsideCastleThroughPieces(b, backRow, color) ==
    LET squares == b.squares
        rook == squares[Pos(backRow, 7)]
    IN  IF rook = NoPiece \/ rook.type # "rook" \/ rook.hasMoved THEN <<>>
        ELSE IF \/ isSquareAttackedOnBoard(b, backRow, 5, color)
                \/ isSquareAttackedOnBoard(b, backRow, 6, color)
             THEN <<>>
        ELSE << [kingTo |-> Pos(backRow, 6), rookFrom |-> Pos(backRow, 7),
                 rookTo |-> Pos(backRow, 5), type |-> "kingside"] >>

checkKingsideCastle(b, backRow, color) ==
    LET squares == b.squares
        rook == squares[Pos(backRow, 7)]
    IN  IF rook = NoPiece \/ rook.type # "rook" \/ rook.hasMoved THEN <<>>
        ELSE IF squares[Pos(backRow, 5)] # NoPiece \/ squares[Pos(backRow, 6)] # NoPiece
             THEN <<>>
        ELSE IF \/ isSquareAttackedOnBoard(b, backRow, 5, color)
                \/ isSquareAttackedOnBoard(b, backRow, 6, color)
             THEN <<>>
        ELSE << [kingTo |-> Pos(backRow, 6), rookFrom |-> Pos(backRow, 7),
                 rookTo |-> Pos(backRow, 5), type |-> "kingside"] >>

checkQueensideCastle(b, backRow, color) ==
    LET squares == b.squares
        rook == squares[Pos(backRow, 0)]
    IN  IF rook = NoPiece \/ rook.type # "rook" \/ rook.hasMoved THEN <<>>
        ELSE IF \/ squares[Pos(backRow, 1)] # NoPiece
                \/ squares[Pos(backRow, 2)] # NoPiece
                \/ squares[Pos(backRow, 3)] # NoPiece
             THEN <<>>
        ELSE IF \/ isSquareAttackedOnBoard(b, backRow, 2, color)
                \/ isSquareAttackedOnBoard(b, backRow, 3, color)
             THEN <<>>
        ELSE << [kingTo |-> Pos(backRow, 2), rookFrom |-> Pos(backRow, 0),
                 rookTo |-> Pos(backRow, 3), type |-> "queenside"] >>

getCastlingMoves(b, from) ==
    LET king == b.squares[from]
        castlingRights == b.castlingRights
        backRow == IF king.color = White THEN 7 ELSE 0
        canKingside == IF king.color = White THEN castlingRights.whiteKingside
                       ELSE castlingRights.blackKingside
        canQueenside == IF king.color = White THEN castlingRights.whiteQueenside
                        ELSE castlingRights.blackQueenside
    IN  IF king.hasMoved THEN <<>>
        ELSE IF isSquareAttackedOnBoard(b, Row(from), Col(from), king.color) THEN <<>>
        ELSE (IF canKingside THEN checkKingsideCastle(b, backRow, king.color) ELSE <<>>)
             \o (IF canQueenside THEN checkQueensideCastle(b, backRow, king.color) ELSE <<>>)

wouldMoveLeaveKingInCheck(b, from, to) ==
    LET color == b.squares[from].color
        testBoard == movePiece(clone(b), from, to)
    IN  IF findKing(testBoard, color) = NoPos THEN TRUE
        ELSE isKingInCheckOnBoard(testBoard, color)

\* getValidMovesForPiece(piece) for the piece standing on `from`.
getValidMovesForPiece(b, from) ==
    LET piece == b.squares[from]
        possibleMoves == getPossibleMoves(b.squares, from, b.enPassantTarget)
        castlingMoves ==
            IF piece.type = "king"
            THEN getCastlingMoves(b, from)
            ELSE <<>>
        all == possibleMoves \o [i \in 1 .. Len(castlingMoves) |-> castlingMoves[i].kingTo]
        Safe(move) == ~wouldMoveLeaveKingInCheck(b, from, move)
    IN  SelectSeq(all, Safe)

hasAnyValidMoves(b, color) ==
    \E from \in Squares :
        /\ b.squares[from] # NoPiece
        /\ b.squares[from].color = color
        /\ Len(getValidMovesForPiece(b, from)) > 0

\* One round of the loop of getAllValidMoves: the piece is listed with its
\* moves when it has any.
MovesEntry(piece, moves) ==
    IF Len(moves) > 0 THEN <<[piece |-> piece, moves |-> moves]>> ELSE <<>>

\* A variant that collects the moves of the player who is not to move.
getAllValidMovesOfOpponent(g) ==
    LET pieces == getPiecesByColor(g.board, Opponent(g.currentPlayer))
        Entry(i) == MovesEntry(pieces[i], getValidMovesForPiece(g.board, pieces[i]))
    IN  Flatten([i \in 1 .. Len(pieces) |-> Entry(i)])

\* getAllValidMoves: the pieces of the player to move that have a legal move,
\* row-major, each with its legal destinations.
getAllValidMoves(g) ==
    LET pieces == getPiecesByColor(g.board, g.currentPlayer)
        Entry(i) == MovesEntry(pieces[i], getValidMovesForPiece(g.board, pieces[i]))
    IN  Flatten([i \in 1 .. Len(pieces) |-> Entry(i)])

switchPlayer(g) == [g EXCEPT !.currentPlayer = Opponent(@)]

\* A variant that looks at the king of the player who has just moved.
updateGameStatusOfMover(g) ==
    LET hasValidMoves == hasAnyValidMoves(g.board, g.currentPlayer)
        inCheck == isInCheck(g, Opponent(g.currentPlayer))
    IN  [g EXCEPT !.status =
            IF ~hasValidMoves THEN (IF inCheck THEN "checkmate" ELSE "stalemate")
            ELSE IF inCheck THEN "check"
            ELSE "in_progress"]

updateGameStatus(g) ==
    LET hasValidMoves == hasAnyValidMoves(g.board, g.currentPlayer)
        inCheck == isInCheck(g, g.currentPlayer)
    IN  [g EXCEPT !.status =
            IF ~hasValidMoves THEN (IF inCheck THEN "checkmate" ELSE "stalemate")
            ELSE IF inCheck THEN "check"
            ELSE "in_progress"]

getState(g) ==
    [status |-> g.status,
     currentPlayer |-> g.currentPlayer,
     board |-> [squares |-> g.board.squares,
                currentPlayer |-> g.currentPlayer,
                enPassantTarget |-> g.board.enPassantTarget,
                castlingRights |-> g.board.castlingRights,
                halfMoveClock |-> 0,
                fullMoveNumber |-> (Len(g.moveHistory) \div 2) + 1],
     moveHistory |-> g.moveHistory,
     capturedPieces |-> g.capturedPieces]

\* The constructor, and reset() on any game: a fresh standard game whose log
\* holds the one snapshot 'Start'.
NewGame ==
    LET g0 == [board |-> setupStandardPosition,
               currentPlayer |-> White,
               status |-> "in_progress",
               moveHistory |-> <<>>,
               capturedPieces |-> [white |-> <<>>, black |-> <<>>],
               selectedPiece |-> NoPos,
               pendingPromotion |-> NoPromotion,
               history |-> EmptyHistory]
    IN  [g0 EXCEPT !.history = addSnapshot(EmptyHistory, NoMove, getState(g0), <<"Start">>)]

\* A variant that does not clear the history before it records 'Start'.
resetKeepingHistory(g) ==
    LET g1 == [g EXCEPT !.board = setupStandardPosition,
                        !.currentPlayer = White,
                        !.status = "in_progress",
                        !.moveHistory = <<>>,
                        !.capturedPieces = [white |-> <<>>, black |-> <<>>],
                        !.selectedPiece = NoPos,
                        !.pendingPromotion = NoPromotion]
    IN  [g1 EXCEPT !.history = addSnapshot(g.history, NoMove, getState(g1), <<"Start">>)]

reset(g) ==
    LET g1 == [g EXCEPT !.board = setupStandardPosition,
                        !.currentPlayer = White,
                        !.status = "in_progress",
                        !.moveHistory = <<>>,
                        !.capturedPieces = [white |-> <<>>, black |-> <<>>],
                        !.selectedPiece = NoPos,
                        !.pendingPromotion = NoPromotion]
    IN  [g1 EXCEPT !.history = addSnapshot(EmptyHistory, NoMove, getState(g1), <<"Start">>)]

\* selectPiece returns the MoveList.
selectPiece(g, position) ==
    LET piece == getPiece(g.board, position)
    IN  IF piece = NoPiece \/ piece.color # g.currentPlayer
        THEN [g |-> [g EXCEPT !.selectedPiece = NoPos], r |-> <<>>]
        ELSE [g |-> [g EXCEPT !.selectedPiece = position],
              r |-> getValidMovesForPiece(g.board, position)]

clearSelection(g) == [g EXCEPT !.selectedPiece = NoPos]

\* handleCastling: [board, type], type "none" for the source's null.
\* A variant that leaves the rook in its corner.
handleCastlingKingOnly(b, from, to) ==
    LET colDiff == Col(to) - Col(from)
    IN  IF Abs(colDiff) # 2 THEN [board |-> b, type |-> "none"]
        ELSE IF colDiff = 2
        THEN [board |-> b, type |-> "castle_kingside"]
        ELSE [board |-> b, type |-> "castle_queenside"]

handleCastling(b, from, to) ==
    LET colDiff == Col(to) - Col(from)
    IN  IF Abs(colDiff) # 2 THEN [board |-> b, type |-> "none"]
        ELSE IF colDiff = 2
        THEN [board |-> movePiece(b, Pos(Row(from), 7), Pos(Row(from), 5)),
              type |-> "castle_kingside"]
        ELSE [board |-> movePiece(b, Pos(Row(from), 0), Pos(Row(from), 3)),
              type |-> "castle_queenside"]

\* handlePawnSpecialMoves: [board, capturedPieces, type, capturedPiece].
handlePawnSpecialMoves(b, capturedPieces, pawn, to) ==
    LET enPassantTarget == b.enPassantTarget
        capturedPawnRow == IF pawn.color = White THEN Row(to) + 1 ELSE Row(to) - 1
        capturedPos == IF isValidPosition(capturedPawnRow, Col(to))
                       THEN Pos(capturedPawnRow, Col(to)) ELSE NoPos
        capturedPawn == getPiece(b, capturedPos)
    IN  IF enPassantTarget # NoPos /\ to = enPassantTarget /\ capturedPawn # NoPiece
        THEN [board |-> removePiece(b, capturedPos),
              capturedPieces |-> [capturedPieces EXCEPT ![capturedPawn.color] = Append(@, "pawn")],
              type |-> "en_passant", capturedPiece |-> "pawn"]
        ELSE [board |-> b, capturedPieces |-> capturedPieces,
              type |-> "none", capturedPiece |-> "none"]

\* A variant that keeps the old target when another piece than a pawn moves.
updateEnPassantTargetSticky(b, piece, from, to) ==
    IF piece.type # "pawn" THEN b
    ELSE IF Abs(Row(to) - Row(from)) = 2
    THEN [b EXCEPT !.enPassantTarget =
              Pos(Row(to) + (IF piece.color = White THEN 1 ELSE 0 - 1), Col(to))]
    ELSE [b EXCEPT !.enPassantTarget = NoPos]

updateEnPassantTarget(b, piece, from, to) ==
    IF piece.type # "pawn" THEN [b EXCEPT !.enPassantTarget = NoPos]
    ELSE IF Abs(Row(to) - Row(from)) = 2
    THEN [b EXCEPT !.enPassantTarget =
              Pos(Row(to) + (IF piece.color = White THEN 1 ELSE 0 - 1), Col(to))]
    ELSE [b EXCEPT !.enPassantTarget = NoPos]

\* The end of executeMove, on the game g2 that updateGameStatus left: the
\* notation of the move, from the piece that stands on `to`, and the snapshot.
saveToHistory(g2, move, to, isCapture) ==
    LET pieceData == getPiece(g2.board, to)
        notation == IF pieceData # NoPiece
                    THEN moveToNotation(move, pieceData.type, isCapture,
                             g2.status = "check", g2.status = "checkmate")
                    ELSE <<>>
    IN  [g |-> [g2 EXCEPT !.history = addSnapshot(@, move, getState(g2), notation)],
         r |-> Success(move, FALSE, NoPos)]

\* The end of promotePawn, on the game g2 that updateGameStatus left.
savePromotionToHistory(g2, move, pieceType) ==
    LET notation == moveToNotation(move, pieceType, FALSE,
                        g2.status = "check", g2.status = "checkmate")
    IN  [g |-> [g2 EXCEPT !.history = addSnapshot(@, move, getState(g2), notation)],
         r |-> Success(move, FALSE, NoPos)]

executeMove(g, from, to) ==
    LET piece == getPiece(g.board, from)
        targetPiece == getPiece(g.board, to)
        captured1 == IF targetPiece # NoPiece
                     THEN [g.capturedPieces EXCEPT ![targetPiece.color] = Append(@, targetPiece.type)]
                     ELSE g.capturedPieces
        castle == IF piece.type = "king" THEN handleCastling(g.board, from, to)
                  ELSE [board |-> g.board, type |-> "none"]
        pawn == IF piece.type = "pawn"
                THEN handlePawnSpecialMoves(castle.board, captured1, piece, to)
                ELSE [board |-> castle.board, capturedPieces |-> captured1,
                      type |-> "none", capturedPiece |-> "none"]
        moveType == IF pawn.type # "none" THEN pawn.type
                    ELSE IF castle.type # "none" THEN castle.type
                    ELSE IF targetPiece # NoPiece THEN "capture"
                    ELSE "normal"
        capturedPiece == IF pawn.capturedPiece # "none" THEN pawn.capturedPiece
                         ELSE IF targetPiece # NoPiece THEN targetPiece.type
                         ELSE "none"
        b1 == updateEnPassantTarget(movePiece(pawn.board, from, to), piece, from, to)
        g1 == [g EXCEPT !.board = b1, !.capturedPieces = pawn.capturedPieces]
    IN  IF piece = NoPiece
        THEN [g |-> g, r |-> Failure("No piece at source position")]
        ELSE IF piece.type = "pawn" /\ canPromote(piece.color, Row(to))
        THEN [g |-> [g1 EXCEPT !.pendingPromotion = [position |-> to, color |-> piece.color]],
              r |-> Success([from |-> from, to |-> to, type |-> "promotion",
                             capturedPiece |-> capturedPiece, promotionPiece |-> "none"],
                            TRUE, to)]
        ELSE LET move == [from |-> from, to |-> to, type |-> moveType,
                          capturedPiece |-> capturedPiece, promotionPiece |-> "none"]
             IN  saveToHistory(updateGameStatus(switchPlayer(
                                   [g1 EXCEPT !.moveHistory = Append(@, move),
                                              !.selectedPiece = NoPos])),
                               move, to, capturedPiece # "none")

\* A variant that drops the selection when the destination is refused.
makeMoveDroppingSelection(g, to) ==
    IF g.selectedPiece = NoPos
    THEN [g |-> g, r |-> Failure("No piece selected")]
    ELSE LET from == g.selectedPiece
             validMoves == getValidMovesForPiece(g.board, from)
         IN  IF ~Contains(validMoves, to)
             THEN [g |-> clearSelection(g), r |-> Failure("Invalid move")]
             ELSE executeMove(g, from, to)

makeMove(g, to) ==
    IF g.selectedPiece = NoPos
    THEN [g |-> g, r |-> Failure("No piece selected")]
    ELSE LET from == g.selectedPiece
             validMoves == getValidMovesForPiece(g.board, from)
         IN  IF ~Contains(validMoves, to)
             THEN [g |-> g, r |-> Failure("Invalid move")]
             ELSE executeMove(g, from, to)

PromotionTypes == {"queen", "rook", "bishop", "knight"}

\* A variant that leaves the turn with the promoting player.
promotePawnKeepingTurn(g, pieceType) ==
    IF g.pendingPromotion = NoPromotion
    THEN [g |-> g, r |-> Failure("No pending promotion")]
    ELSE IF pieceType \notin PromotionTypes
    THEN [g |-> g, r |-> Failure("Invalid promotion piece")]
    ELSE LET position == g.pendingPromotion.position
             color == g.pendingPromotion.color
             lastMoveIndex == Len(g.moveHistory)
             from == IF lastMoveIndex > 0 THEN g.moveHistory[lastMoveIndex].from
                     ELSE position
             move == [from |-> from, to |-> position, type |-> "promotion",
                      capturedPiece |-> "none", promotionPiece |-> pieceType]
             g1 == [g EXCEPT !.board = setPieceAt(@, position, Piece(pieceType, color, TRUE)),
                             !.moveHistory = Append(@, move),
                             !.pendingPromotion = NoPromotion,
                             !.selectedPiece = NoPos]
         IN  savePromotionToHistory(updateGameStatus(g1), move, pieceType)

promotePawn(g, pieceType) ==
    IF g.pendingPromotion = NoPromotion
    THEN [g |-> g, r |-> Failure("No pending promotion")]
    ELSE IF pieceType \notin PromotionTypes
    THEN [g |-> g, r |-> Failure("Invalid promotion piece")]
    ELSE LET position == g.pendingPromotion.position
             color == g.pendingPromotion.color
             lastMoveIndex == Len(g.moveHistory)
             from == IF lastMoveIndex > 0 THEN g.moveHistory[lastMoveIndex].from
                     ELSE position
             move == [from |-> from, to |-> position, type |-> "promotion",
                      capturedPiece |-> "none", promotionPiece |-> pieceType]
             g1 == [g EXCEPT !.board = setPieceAt(@, position, Piece(pieceType, color, TRUE)),
                             !.moveHistory = Append(@, move),
                             !.pendingPromotion = NoPromotion,
                             !.selectedPiece = NoPos]
         IN  savePromotionToHistory(updateGameStatus(switchPlayer(g1)), move, pieceType)

isGameOver(g) == g.status \in {"checkmate", "stalemate", "draw", "resigned"}

\* A variant that names the player to move.
getWinnerToMove(g) ==
    IF g.status = "checkmate" THEN g.currentPlayer ELSE "none"

getWinner(g) ==
    IF g.status = "checkmate" THEN Opponent(g.currentPlayer) ELSE "none"

(***************************************************************************)
(* History and rollback.  These return [g, r] with r the boolean returned. *)
(***************************************************************************)
\* A variant that leaves the live moveHistory as it is.
restoreStateFromSnapshotKeepingMoves(g, state) ==
    [g EXCEPT !.currentPlayer = state.currentPlayer,
              !.status = state.status,
              !.capturedPieces = [white |-> state.capturedPieces.white,
                                  black |-> state.capturedPieces.black],
              !.selectedPiece = NoPos,
              !.pendingPromotion = NoPromotion,
              !.board = fromBoardState(state.board)]

restoreStateFromSnapshot(g, state) ==
    [g EXCEPT !.currentPlayer = state.currentPlayer,
              !.status = state.status,
              !.moveHistory = state.moveHistory,
              !.capturedPieces = [white |-> state.capturedPieces.white,
                                  black |-> state.capturedPieces.black],
              !.selectedPiece = NoPos,
              !.pendingPromotion = NoPromotion,
              !.board = fromBoardState(state.board)]

\* The shared tail of the navigation methods: `nav` is what the history returned.
Navigate(g, nav) ==
    IF nav.ok
    THEN [g |-> restoreStateFromSnapshot([g EXCEPT !.history = nav.h], nav.state), r |-> TRUE]
    ELSE [g |-> [g EXCEPT !.history = nav.h], r |-> FALSE]

goToHistoryPoint(g, index) == Navigate(g, goToSnapshot(g.history, index))

undoMove(g) == Navigate(g, goBack(g.history))

redoMove(g) == Navigate(g, goForward(g.history))

goToLatest(g) ==
    IF ~isAtLatest(g.history) THEN Navigate(g, historyGoToLatest(g.history))
    ELSE [g |-> g, r |-> FALSE]

goToStart(g) == Navigate(g, historyGoToStart(g.history))

(***************************************************************************)
(* ChessAI.  An AI is its two fields [difficulty, color].  Math.random()   *)
(* makes getRandomMove and getMediumMove return one of several moves: the  *)
(* operators give the set of values a call can return.  Scores are held in *)
(* halves of a point, so that the Hard tier's evaluation * 0.5 and the     *)
(* Medium tier's fractional random factor stay integers.                   *)
(***************************************************************************)
PIECE_VALUES ==
    [pawn |-> 100, knight |-> 320, bishop |-> 330, rook |-> 500, queen |-> 900,
     king |-> 20000]

Difficulties == {"easy", "medium", "hard"}

PAWN_TABLE ==
    << <<0, 0, 0, 0, 0, 0, 0, 0>>,
       <<50, 50, 50, 50, 50, 50, 50, 50>>,
       <<10, 10, 20, 30, 30, 20, 10, 10>>,
       <<5, 5, 10, 25, 25, 10, 5, 5>>,
       <<0, 0, 0, 20, 20, 0, 0, 0>>,
       <<5, 0 - 5, 0 - 10, 0, 0, 0 - 10, 0 - 5, 5>>,
       <<5, 10, 10, 0 - 20, 0 - 20, 10, 10, 5>>,
       <<0, 0, 0, 0, 0, 0, 0, 0>> >>

KNIGHT_TABLE ==
    << <<0 - 50, 0 - 40, 0 - 30, 0 - 30, 0 - 30, 0 - 30, 0 - 40, 0 - 50>>,
       <<0 - 40, 0 - 20, 0, 0, 0, 0, 0 - 20, 0 - 40>>,
       <<0 - 30, 0, 10, 15, 15, 10, 0, 0 - 30>>,
       <<0 - 30, 5, 15, 20, 20, 15, 5, 0 - 30>>,
       <<0 - 30, 0, 15, 20, 20, 15, 0, 0 - 30>>,
       <<0 - 30, 5, 10, 15, 15, 10, 5, 0 - 30>>,
       <<0 - 40, 0 - 20, 0, 5, 5, 0, 0 - 20, 0 - 40>>,
       <<0 - 50, 0 - 40, 0 - 30, 0 - 30, 0 - 30, 0 - 30, 0 - 40, 0 - 50>> >>

BISHOP_TABLE ==
    << <<0 - 20, 0 - 10, 0 - 10, 0 - 10, 0 - 10, 0 - 10, 0 - 10, 0 - 20>>,
       <<0 - 10, 0, 0, 0, 0, 0, 0, 0 - 10>>,
       <<0 - 10, 0, 10, 10, 10, 10, 0, 0 - 10>>,
       <<0 - 10, 5, 5, 10, 10, 5, 5, 0 - 10>>,
       <<0 - 10, 0, 5, 10, 10, 5, 0, 0 - 10>>,
       <<0 - 10, 5, 5, 5, 5, 5, 5, 0 - 10>>,
       <<0 - 10, 5, 0, 0, 0, 0, 5, 0 - 10>>,
       <<0 - 20, 0 - 10, 0 - 10, 0 - 10, 0 - 10, 0 - 10, 0 - 10, 0 - 20>> >>

KING_TABLE ==
    << <<0 - 30, 0 - 40, 0 - 40, 0 - 50, 0 - 50, 0 - 40, 0 - 40, 0 - 30>>,
       <<0 - 30, 0 - 40, 0 - 40, 0 - 50, 0 - 50, 0 - 40, 0 - 40, 0 - 30>>,
       <<0 - 30, 0 - 40, 0 - 40, 0 - 50, 0 - 50, 0 - 40, 0 - 40, 0 - 30>>,
       <<0 - 30, 0 - 40, 0 - 40, 0 - 50, 0 - 50, 0 - 40, 0 - 40, 0 - 30>>,
       <<0 - 20, 0 - 30, 0 - 30, 0 - 40, 0 - 40, 0 - 30, 0 - 30, 0 - 20>>,
       <<0 - 10, 0 - 20, 0 - 20, 0 - 20, 0 - 20, 0 - 20, 0 - 20, 0 - 10>>,
       <<20, 20, 0, 0, 0, 0, 20, 20>>,
       <<20, 30, 10, 0, 0, 10, 30, 20>> >>

\* TABLE[row][col] of a 0-based source table
At(table, row, col) == table[row + 1][col + 1]

\* getBestMove returning null
NoAIMove == [from |-> NoPos, to |-> NoPos, score |-> 0]

getOpponentColor(ai) == IF ai.color = White THEN Black ELSE White

isCenterSquare(position) ==
    /\ Row(position) = 3 \/ Row(position) = 4
    /\ Col(position) = 3 \/ Col(position) = 4

getPositionBonus(type, position, color) ==
    LET row == IF color = Black THEN Row(position) ELSE 7 - Row(position)
    IN  CASE type = "pawn" -> At(PAWN_TABLE, row, Col(position))
          [] type = "knight" -> At(KNIGHT_TABLE, row, Col(position))
          [] type = "bishop" -> At(BISHOP_TABLE, row, Col(position))
          [] type = "king" -> At(KING_TABLE, row, Col(position))
          [] OTHER -> 0

\* evaluateMove: `piece` is the square of the piece to move; in points.
evaluateMove(g, piece, to) ==
    LET targetPiece == g.board.squares[to]
        p == g.board.squares[piece]
    IN  (IF targetPiece # NoPiece THEN PIECE_VALUES[targetPiece.type] ELSE 0)
            + getPositionBonus(p.type, to, p.color)
            + (IF isCenterSquare(to) THEN 30 ELSE 0)
            + (IF Len(g.moveHistory) < 10 /\ ~p.hasMoved /\ p.type # "pawn" THEN 20 ELSE 0)

\* One round of the loops of evaluateBoardPosition
PieceScore(ai, g, sq) ==
    LET pieceData == g.board.squares[sq]
    IN  IF pieceData # NoPiece
        THEN (PIECE_VALUES[pieceData.type]
                  + getPositionBonus(pieceData.type, sq, pieceData.color))
              * (IF pieceData.color = ai.color THEN 1 ELSE 0 - 1)
        ELSE 0

\* The inner loop, over the columns of a row
RowScore(ai, g, row) ==
    PieceScore(ai, g, Pos(row, 0)) + PieceScore(ai, g, Pos(row, 1))
        + PieceScore(ai, g, Pos(row, 2)) + PieceScore(ai, g, Pos(row, 3))
        + PieceScore(ai, g, Pos(row, 4)) + PieceScore(ai, g, Pos(row, 5))
        + PieceScore(ai, g, Pos(row, 6)) + PieceScore(ai, g, Pos(row, 7))

\* evaluateBoardPosition, in points
evaluateBoardPosition(ai, g) ==
    RowScore(ai, g, 0) + RowScore(ai, g, 1) + RowScore(ai, g, 2) + RowScore(ai, g, 3)
        + RowScore(ai, g, 4) + RowScore(ai, g, 5) + RowScore(ai, g, 6) + RowScore(ai, g, 7)
        + (IF isInCheck(g, getOpponentColor(ai)) THEN 50 ELSE 0)

\* evaluateMoveWithLookahead, in halves: score + evaluation * 0.5
evaluateMoveWithLookahead(ai, g, piece, to, depth) ==
    2 * evaluateMove(g, piece, to)
        + (IF depth > 0 THEN evaluateBoardPosition(ai, g) ELSE 0)

\* The pairs (piece, move) in the order of the two nested loops over allMoves.
Candidates(allMoves) ==
    Flatten([i \in 1 .. Len(allMoves) |->
                [j \in 1 .. Len(allMoves[i].moves) |->
                    [piece |-> allMoves[i].piece, to |-> allMoves[i].moves[j]]]])

\* Math.floor(Math.random() * length)
RandomIndex(length) == 0 .. (length - 1)

\* A variant for Math.random() * 100
RandomFactorsBelow100 == {0, 99, 199}

\* Math.random() * 50 lies in [0, 50): in halves, the least value, one in the
\* middle and the greatest below 50.
RandomFactors == {0, 49, 99}

getRandomMove(allMoves) ==
    UNION {{[from |-> allMoves[randomPieceIndex + 1].piece,
             to |-> allMoves[randomPieceIndex + 1].moves[randomMoveIndex + 1],
             score |-> 0] :
                randomMoveIndex \in RandomIndex(Len(allMoves[randomPieceIndex + 1].moves))} :
           randomPieceIndex \in RandomIndex(Len(allMoves))}

\* A variant that lets an equal score replace the best move.
BetterOrEqual(bestMove, piece, to, finalScore) ==
    IF bestMove = NoAIMove \/ finalScore >= bestMove.score
    THEN [from |-> piece, to |-> to, score |-> finalScore]
    ELSE bestMove

\* One round of the loops of getMediumMove and getHardMove: bestMove = null
\* goes with bestScore = -Infinity, which every score exceeds.
Better(bestMove, piece, to, finalScore) ==
    IF bestMove = NoAIMove \/ finalScore > bestMove.score
    THEN [from |-> piece, to |-> to, score |-> finalScore]
    ELSE bestMove

\* The values bestMove can have after the first k rounds of getMediumMove.
RECURSIVE MediumLoop(_, _, _)
MediumLoop(g, candidates, k) ==
    IF k = 0 THEN {NoAIMove}
    ELSE LET score == evaluateMove(g, candidates[k].piece, candidates[k].to)
             bests == MediumLoop(g, candidates, k - 1)
         IN  {Better(bestMove, candidates[k].piece, candidates[k].to,
                     2 * score + randomFactor) :
                  bestMove \in bests, randomFactor \in RandomFactors}

getMediumMove(g, allMoves) ==
    LET candidates == Candidates(allMoves)
        bests == MediumLoop(g, candidates, Len(candidates))
    IN  (bests \ {NoAIMove})
            \cup (IF NoAIMove \in bests THEN getRandomMove(allMoves) ELSE {})

\* bestMove after the first k rounds of getHardMove.
RECURSIVE HardLoop(_, _, _, _)
HardLoop(ai, g, candidates, k) ==
    IF k = 0 THEN NoAIMove
    ELSE Better(HardLoop(ai, g, candidates, k - 1), candidates[k].piece, candidates[k].to,
                evaluateMoveWithLookahead(ai, g, candidates[k].piece, candidates[k].to, 3))

getHardMove(ai, g, allMoves) ==
    LET candidates == Candidates(allMoves)
        bestMove == HardLoop(ai, g, candidates, Len(candidates))
    IN  IF bestMove # NoAIMove THEN {bestMove} ELSE getMediumMove(g, allMoves)

\* getBestMove after its call of getAllValidMoves: the values the call can
\* return, NoAIMove for null.
bestOfAllMoves(ai, g, allMoves) ==
    IF Len(allMoves) = 0 THEN {NoAIMove}
    ELSE CASE ai.difficulty = "easy" -> getRandomMove(allMoves)
           [] ai.difficulty = "medium" -> getMediumMove(g, allMoves)
           [] ai.difficulty = "hard" -> getHardMove(ai, g, allMoves)
           [] OTHER -> getMediumMove(g, allMoves)

getBestMove(ai, g) == bestOfAllMoves(ai, g, getAllValidMoves(g))

(***************************************************************************)
(* Objects.  The operations above take a board as a value.  In the source  *)
(* a Board holds references to Piece objects, Board.clone() builds a board *)
(* with Piece objects of its own, and Board.movePiece writes into the      *)
(* Piece it moves (Piece.setPosition).  Here the Piece objects live in a   *)
(* store indexed by reference, and the legality filter is written again    *)
(* over the store: it returns the store it leaves behind.  The reference   *)
(* of a piece of the live board is the square it stood on when the store   *)
(* was loaded; the references NewRef(..) are those Board.clone() allocates.*)
(***************************************************************************)
NewRef(ref) == ref + BOARD_SIZE * BOARD_SIZE

\* A store that holds no object.
NoObjects == [ref \in {} |-> NoPiece]

\* The Piece objects by reference, and the Board object (squares hold
\* references, NoPos for null) of a board.
LoadObjects(b) ==
    [pieces |-> [ref \in {at \in Squares : b.squares[at] # NoPiece} |->
                    [type |-> b.squares[ref].type, color |-> b.squares[ref].color,
                     position |-> ref, hasMoved |-> b.squares[ref].hasMoved]]
                @@ NoObjects,
     board |-> [squares |-> [sq \in Squares |-> IF b.squares[sq] # NoPiece THEN sq ELSE NoPos],
                enPassantTarget |-> b.enPassantTarget,
                castlingRights |-> b.castlingRights]]

\* The Piece object a reference leads to.
Object(pieces, ref) == pieces[ref]

\* Board.squares, enPassantTarget and castlingRights: Piece.toData of every square.
Data(pieces, boardObject) ==
    [squares |-> [sq \in {at \in Squares : boardObject.squares[at] # NoPos} |->
                     LET piece == Object(pieces, boardObject.squares[sq])
                     IN  Piece(piece.type, piece.color, piece.hasMoved)]
                 @@ [sq \in Squares |-> NoPiece],
     enPassantTarget |-> boardObject.enPassantTarget,
     castlingRights |-> boardObject.castlingRights]

\* A variant whose new board refers to the Piece objects of the board it copies.
cloneObjectsSharingPieces(pieces, boardObject) ==
    [pieces |-> pieces,
     board |-> [squares |-> boardObject.squares,
                enPassantTarget |-> boardObject.enPassantTarget,
                castlingRights |-> boardObject.castlingRights]]

\* Board.clone: a new Board whose squares hold piece.clone() of every piece.
cloneObjects(pieces, boardObject) ==
    LET occupied == {at \in Squares : boardObject.squares[at] # NoPos}
    IN  [pieces |-> [ref \in {NewRef(sq) : sq \in occupied} |->
                        Object(pieces, boardObject.squares[ref - BOARD_SIZE * BOARD_SIZE])]
                    @@ pieces,
         board |-> [squares |-> [sq \in occupied |-> NewRef(sq)]
                                @@ [sq \in Squares |-> NoPos],
                    enPassantTarget |-> boardObject.enPassantTarget,
                    castlingRights |-> boardObject.castlingRights]]

\* Board.movePiece on a Board object: the Piece moved is written through its
\* reference.
movePieceObject(pieces, boardObject, from, to) ==
    LET ref == IF from \in Squares THEN boardObject.squares[from] ELSE NoPos
    IN  IF ref = NoPos THEN [pieces |-> pieces, board |-> boardObject]
        ELSE [pieces |-> [pieces EXCEPT ![ref].position = to, ![ref].hasMoved = TRUE],
              board |-> [boardObject EXCEPT
                            !.squares = [@ EXCEPT ![from] = NoPos, ![to] = ref],
                            !.castlingRights =
                                updateCastlingRightsAfterMove(@, Object(pieces, ref), from)]]

\* The store once the test board is unreachable: the pieces of the live board.
Collected(pieces) == [ref \in DOMAIN pieces \cap Squares |-> pieces[ref]] @@ NoObjects

\* wouldMoveLeaveKingInCheck(piece, to) for the Piece at ref; w holds the
\* store and the live Board object.
wouldMoveLeaveKingInCheckObjects(w, ref, to) ==
    LET cloned == cloneObjects(w.pieces, w.board)
        moved == movePieceObject(cloned.pieces, cloned.board,
                                 Object(w.pieces, ref).position, to)
        testBoard == Data(moved.pieces, moved.board)
        color == Object(moved.pieces, ref).color
    IN  [w |-> [pieces |-> Collected(moved.pieces), board |-> w.board],
         result |-> IF findKing(testBoard, color) = NoPos THEN TRUE
                    ELSE isKingInCheckOnBoard(testBoard, color)]

\* possibleMoves.filter(..) from the k-th move on; kept holds the moves the
\* filter has let through so far.
RECURSIVE FilterLoop(_, _, _, _, _)
FilterLoop(w, ref, possibleMoves, k, kept) ==
    IF k > Len(possibleMoves) THEN [w |-> w, result |-> kept]
    ELSE LET test == wouldMoveLeaveKingInCheckObjects(w, ref, possibleMoves[k])
         IN  IF test.result
             THEN FilterLoop(test.w, ref, possibleMoves, k + 1, kept)
             ELSE FilterLoop(test.w, ref, possibleMoves, k + 1, Append(kept, possibleMoves[k]))

getValidMovesForPieceObjects(w, ref) ==
    LET live == Data(w.pieces, w.board)
        from == Object(w.pieces, ref).position
        possibleMoves == getPossibleMoves(live.squares, from, live.enPassantTarget)
        castlingMoves ==
            IF Object(w.pieces, ref).type = "king" THEN getCastlingMoves(live, from) ELSE <<>>
        all == possibleMoves \o [i \in 1 .. Len(castlingMoves) |-> castlingMoves[i].kingTo]
    IN  FilterLoop(w, ref, all, 1, <<>>)

\* The loop of getAllValidMoves from the k-th piece on; a result names its
\* piece by reference.
RECURSIVE AllValidMovesLoop(_, _, _, _)
AllValidMovesLoop(w, pieces, k, result) ==
    IF k > Len(pieces) THEN [w |-> w, result |-> result]
    ELSE LET filtered == getValidMovesForPieceObjects(w, pieces[k])
         IN  IF Len(filtered.result) > 0
             THEN AllValidMovesLoop(filtered.w, pieces, k + 1,
                                    Append(result, [piece |-> pieces[k],
                                                    moves |-> filtered.result]))
             ELSE AllValidMovesLoop(filtered.w, pieces, k + 1, result)

\* A game whose board is the Board object with its Piece objects.
GameObjects(g) == [g EXCEPT !.board = LoadObjects(g.board)]

\* The game as the getters show it.
GameData(o) == [o EXCEPT !.board = Data(o.board.pieces, o.board.board)]

getAllValidMovesObjects(o) ==
    LET squares == getPiecesByColor(GameData(o).board, o.currentPlayer)
        pieces == [i \in 1 .. Len(squares) |-> o.board.board.squares[squares[i]]]
        all == AllValidMovesLoop(o.board, pieces, 1, <<>>)
    IN  [o |-> [o EXCEPT !.board = all.w], result |-> all.result]

\* selectPiece: the game it leaves and the MoveList it returns.
selectPieceObjects(o, position) ==
    LET ref == IF position \in Squares THEN o.board.board.squares[position] ELSE NoPos
    IN  IF ref = NoPos \/ Object(o.board.pieces, ref).color # o.currentPlayer
        THEN [o |-> [o EXCEPT !.selectedPiece = NoPos], result |-> <<>>]
        ELSE LET filtered == getValidMovesForPieceObjects(o.board, ref)
             IN  [o |-> [o EXCEPT !.selectedPiece = position, !.board = filtered.w],
                  result |-> filtered.result]

\* getBestMove: the game it leaves and the values it can return.  The
\* evaluation reads the game through getPiece, getPieceData, moveHistory and
\* isInCheck; pieceMove.piece.position is read when the move is built.
getBestMoveObjects(ai, o) ==
    LET all == getAllValidMovesObjects(o)
        game == GameData(all.o)
        allMoves == [i \in 1 .. Len(all.result) |->
                        [piece |-> Object(all.o.board.pieces, all.result[i].piece).position,
                         moves |-> all.result[i].moves]]
    IN  [o |-> all.o,
         result |-> IF Len(allMoves) = 0 THEN {NoAIMove}
                    ELSE CASE ai.difficulty = "easy" -> getRandomMove(allMoves)
                           [] ai.difficulty = "medium" -> getMediumMove(game, allMoves)
                           [] ai.difficulty = "hard" -> getHardMove(ai, game, allMoves)
                           [] OTHER -> getMediumMove(game, allMoves)]

(***************************************************************************)
(* The players.  A game is driven by clicks; exploring every click of      *)
(* every game is out of reach, so a run follows one prepared line of play  *)
(* from the constructed game (every ply of it goes through selectPiece and *)
(* makeMove like any other) and then plays MaxFree further plies freely,   *)
(* clicking on the squares the line names.  History navigation reaches     *)
(* MaxBack snapshots behind the latest one; after going back into the      *)
(* line, the line is replayed.                                             *)
(***************************************************************************)
FileIndex(f) == CHOOSE i \in Rows : FILES[i + 1] = f

\* The square named by file and rank, e.g. Sq("e", 2).
Sq(f, rank) == Pos(BOARD_SIZE - rank, FileIndex(f))

Mv(f1, r1, f2, r2) == [from |-> Sq(f1, r1), to |-> Sq(f2, r2)]

\* No prepared plies: free play from the starting position.
OpenLine ==
    [moves |-> <<>>,
     clicks |-> {Sq("e", 2), Sq("e", 4), Sq("g", 1), Sq("f", 3),
                 Sq("e", 7), Sq("e", 5), Sq("d", 7), Sq("d", 5)}]

\* 1.e3 d5 2.h3 d4 3.h4 Kd7 4.g3 Kd6 5.Rh2 Kc5 6.Qg4 Kb4 7.c4: the black king,
\* the pawns c4 and d4 and the white queen share the fourth rank, and black may
\* capture c4 en passant.
EnPassantLine ==
    [moves |-> << Mv("e", 2, "e", 3), Mv("d", 7, "d", 5), Mv("h", 2, "h", 3), Mv("d", 5, "d", 4),
                  Mv("h", 3, "h", 4), Mv("e", 8, "d", 7), Mv("g", 2, "g", 3), Mv("d", 7, "d", 6),
                  Mv("h", 1, "h", 2), Mv("d", 6, "c", 5), Mv("d", 1, "g", 4), Mv("c", 5, "b", 4),
                  Mv("c", 2, "c", 4) >>,
     clicks |-> {Sq("d", 4), Sq("c", 3), Sq("d", 3), Sq("b", 4), Sq("a", 5),
                 Sq("g", 4), Sq("b", 2)}]

\* 1.a4 b5 2.axb5 a6 3.bxa6 Bb7 4.axb7 Nc6: the white pawn on b7 promotes on a8
\* (capturing) or on b8.
PromotionLine ==
    [moves |-> << Mv("a", 2, "a", 4), Mv("b", 7, "b", 5), Mv("a", 4, "b", 5), Mv("a", 7, "a", 6),
                  Mv("b", 5, "a", 6), Mv("c", 8, "b", 7), Mv("a", 6, "b", 7), Mv("b", 8, "c", 6) >>,
     clicks |-> {Sq("b", 7), Sq("a", 8), Sq("b", 8), Sq("d", 8), Sq("h", 2), Sq("h", 3)}]

\* 1.d4 Nf6 2.d5 g6 3.d6 Bg7 4.dxe7: the white pawn on e7 attacks f8, which the
\* black king would cross in castling kingside.
PawnGuardLine ==
    [moves |-> << Mv("d", 2, "d", 4), Mv("g", 8, "f", 6), Mv("d", 4, "d", 5), Mv("g", 7, "g", 6),
                  Mv("d", 5, "d", 6), Mv("f", 8, "g", 7), Mv("d", 6, "e", 7) >>,
     clicks |-> {Sq("e", 8), Sq("g", 8), Sq("e", 7), Sq("d", 8), Sq("d", 1), Sq("d", 7)}]

\* 1.a4 g6 2.Ra3 Bg7 3.Rh3 Nf6 4.Rg3 a6 5.e3 b6 6.Be2 c6 7.Nf3: the queen's rook
\* has left the h-file on move 4 while the king's rook never moved; both sides
\* have cleared the squares between king and king's rook.
RookLine ==
    [moves |-> << Mv("a", 2, "a", 4), Mv("g", 7, "g", 6), Mv("a", 1, "a", 3), Mv("f", 8, "g", 7),
                  Mv("a", 3, "h", 3), Mv("g", 8, "f", 6), Mv("h", 3, "g", 3), Mv("a", 7, "a", 6),
                  Mv("e", 2, "e", 3), Mv("b", 7, "b", 6), Mv("f", 1, "e", 2), Mv("c", 7, "c", 6),
                  Mv("g", 1, "f", 3) >>,
     clicks |-> {Sq("e", 8), Sq("g", 8), Sq("f", 8), Sq("e", 1), Sq("g", 1), Sq("f", 1)}]

\* 1.f3 e5 2.g4 Qh4: the white king is attacked along e1-h4 and white has no answer.
MateLine ==
    [moves |-> << Mv("f", 2, "f", 3), Mv("e", 7, "e", 5), Mv("g", 2, "g", 4), Mv("d", 8, "h", 4) >>,
     clicks |-> {Sq("e", 1), Sq("f", 2), Sq("h", 2), Sq("h", 3), Sq("h", 4)}]

\* 1.e3 a5 2.Qh5 Ra6 3.Qxa5 h5 4.h4 Rah6 5.Qxc7 f6 6.Qxd7 Kf7 7.Qxb7 Qd3 8.Qxb8 Qh7
\* 9.Qxc8 Kg6 10.Qe6: black, not attacked, has no move left.
StalemateLine ==
    [moves |-> << Mv("e", 2, "e", 3), Mv("a", 7, "a", 5), Mv("d", 1, "h", 5), Mv("a", 8, "a", 6),
                  Mv("h", 5, "a", 5), Mv("h", 7, "h", 5), Mv("h", 2, "h", 4), Mv("a", 6, "h", 6),
                  Mv("a", 5, "c", 7), Mv("f", 7, "f", 6), Mv("c", 7, "d", 7), Mv("e", 8, "f", 7),
                  Mv("d", 7, "b", 7), Mv("d", 8, "d", 3), Mv("b", 7, "b", 8), Mv("d", 3, "h", 7),
                  Mv("b", 8, "c", 8), Mv("f", 7, "g", 6), Mv("c", 8, "e", 6) >>,
     clicks |-> {Sq("g", 6), Sq("g", 5), Sq("h", 7), Sq("g", 8), Sq("e", 6)}]

\* 1.d4 d5 2.Nc3 Nc6 3.Bf4 Bf5 4.Qd2 Qd7: both sides have emptied the squares
\* between king and queen's rook.
QueensideLine ==
    [moves |-> << Mv("d", 2, "d", 4), Mv("d", 7, "d", 5), Mv("b", 1, "c", 3), Mv("b", 8, "c", 6),
                  Mv("c", 1, "f", 4), Mv("c", 8, "f", 5), Mv("d", 1, "d", 2), Mv("d", 8, "d", 7) >>,
     clicks |-> {Sq("e", 1), Sq("c", 1), Sq("a", 1), Sq("b", 1), Sq("e", 8), Sq("c", 8)}]

\* 1.e4 a6 2.e5 a5 3.Ke2 a4 4.Ke3 h6 5.Ke4 d5: the black pawn has advanced two
\* squares to d5, beside the white pawn on e5, and attacks the white king on e4.
PawnCheckLine ==
    [moves |-> << Mv("e", 2, "e", 4), Mv("a", 7, "a", 6), Mv("e", 4, "e", 5), Mv("a", 6, "a", 5),
                  Mv("e", 1, "e", 2), Mv("a", 5, "a", 4), Mv("e", 2, "e", 3), Mv("h", 7, "h", 6),
                  Mv("e", 3, "e", 4), Mv("d", 7, "d", 5) >>,
     clicks |-> {Sq("e", 5), Sq("d", 6), Sq("e", 6), Sq("e", 4), Sq("d", 5), Sq("f", 4)}]

\* 1.e4 b5 2.a4 f6 3.axb5 a6 4.bxa6 g5 5.a7 h6: the white pawn on a7 promotes on
\* b8 (capturing), and the white queen mates on h5.
PromotionMateLine ==
    [moves |-> << Mv("e", 2, "e", 4), Mv("b", 7, "b", 5), Mv("a", 2, "a", 4), Mv("f", 7, "f", 6),
                  Mv("a", 4, "b", 5), Mv("a", 7, "a", 6), Mv("b", 5, "a", 6), Mv("g", 7, "g", 5),
                  Mv("a", 6, "a", 7), Mv("h", 7, "h", 6) >>,
     clicks |-> {Sq("a", 7), Sq("b", 8), Sq("d", 1), Sq("h", 5)}]

Lines ==
    <<OpenLine, EnPassantLine, PromotionLine, PawnGuardLine, RookLine, MateLine, StalemateLine,
      QueensideLine, PawnCheckLine, PromotionMateLine>>

\* The free plies played after the prepared line.
MaxFree == 2

\* How far behind the latest snapshot navigation goes.
MaxBack == 2

\* What promotePawn may be handed: the four promotion types and one that is none.
PromotionInputs == PromotionTypes \cup {"king"}

VARIABLES
    board,             \* Game._board: [squares, enPassantTarget, castlingRights]
    currentPlayer,     \* Game._currentPlayer
    status,            \* Game._status
    moveHistory,       \* Game._moveHistory
    capturedPieces,    \* Game._capturedPieces
    selectedPiece,     \* Game._selectedPiece, as the square of the piece
    pendingPromotion,  \* Game._pendingPromotion
    history,           \* Game._history: [snapshots, currentSnapshotIndex]
    line,              \* the index in Lines of the line this game follows
    ui,                \* the fields of the GameUI that shows the game
    legacy             \* the GameController of the legacy engine, with its board

vars == <<board, currentPlayer, status, moveHistory, capturedPieces,
          selectedPiece, pendingPromotion, history, line, ui, legacy>>

\* The game in the current state.
Game ==
    [board |-> board, currentPlayer |-> currentPlayer, status |-> status,
     moveHistory |-> moveHistory, capturedPieces |-> capturedPieces,
     selectedPiece |-> selectedPiece, pendingPromotion |-> pendingPromotion,
     history |-> history]

(***************************************************************************)
(* The legacy engine (src/js): ChessBoard, the Piece classes, the          *)
(* GameController and its HistoryManager.  A piece is the record of its    *)
(* type, color and hasMoved; its row and col are the square it stands on.  *)
(* Rook.js and Bishop.js are not among the sources: rook and bishop slide  *)
(* as the queen does, along the straight and the diagonal directions.      *)
(***************************************************************************)
GAME_STATUS ==
    [IN_PROGRESS |-> "In Progress", CHECK |-> "Check", CHECKMATE |-> "Checkmate",
     STALEMATE |-> "Stalemate"]

\* Piece.isValidPosition / ChessBoard.isValidPosition.
Piece_isValidPosition(row, col) ==
    row >= 0 /\ row < BOARD_SIZE /\ col >= 0 /\ col < BOARD_SIZE

\* Piece.setPosition: the piece counts as moved from then on.
Piece_setPosition(piece) == [piece EXCEPT !.hasMoved = TRUE]

\* A variant that leaves hasMoved as it is.
Piece_setPositionOnly(piece) == piece

\* ChessBoard.setPieceAt.
ChessBoard_setPieceAt(b, row, col, piece) ==
    IF Piece_isValidPosition(row, col)
    THEN [b EXCEPT ![Pos(row, col)] = IF piece # NoPiece THEN Piece_setPosition(piece)
                                      ELSE NoPiece]
    ELSE b

\* The piece types on the back row, by column (getStartingPositions of Rook,
\* Knight, Bishop, Queen and King).
BackRowType(col) ==
    CASE col \in {0, 7} -> "rook"
      [] col \in {1, 6} -> "knight"
      [] col \in {2, 5} -> "bishop"
      [] col = 3 -> "queen"
      [] OTHER -> "king"

\* ChessBoard.clear.
ChessBoard_clear == [sq \in Squares |-> NoPiece]

\* The pieces initializeBoard creates, each with hasMoved = false, by square.
CreatedPiece(sq) ==
    CASE Row(sq) = 6 -> Piece("pawn", White, FALSE)
      [] Row(sq) = 1 -> Piece("pawn", Black, FALSE)
      [] Row(sq) = 7 -> Piece(BackRowType(Col(sq)), White, FALSE)
      [] Row(sq) = 0 -> Piece(BackRowType(Col(sq)), Black, FALSE)
      [] OTHER -> NoPiece

\* ChessBoard.initializeBoard: every piece is placed with setPieceAt on the
\* cleared board.
ChessBoard_initializeBoard ==
    [sq \in Squares |->
        IF CreatedPiece(sq) # NoPiece
        THEN ChessBoard_setPieceAt(ChessBoard_clear, Row(sq), Col(sq), CreatedPiece(sq))[sq]
        ELSE NoPiece]

\* ChessBoard.movePiece: [b: the board afterwards, captured: what stood on `to`].
ChessBoard_movePiece(b, from, to) ==
    IF b[from] = NoPiece THEN [b |-> b, captured |-> NoPiece]
    ELSE [b |-> ChessBoard_setPieceAt(
                    ChessBoard_setPieceAt(b, Row(to), Col(to), b[from]),
                    Row(from), Col(from), NoPiece),
          captured |-> b[to]]

\* ChessBoard.serialize.
ChessBoard_serialize(b) == [sq \in Squares |-> b[sq]]

\* ChessBoard.deserialize: every piece is created anew, gets the recorded
\* hasMoved and is placed with setPieceAt.
ChessBoard_deserialize(serializedBoard) ==
    [sq \in Squares |->
        IF serializedBoard[sq] # NoPiece
        THEN Piece_setPosition(Piece(serializedBoard[sq].type, serializedBoard[sq].color,
                                     serializedBoard[sq].hasMoved))
        ELSE NoPiece]

\* Piece.isOpponent.
Piece_isOpponent(piece, other) == other # NoPiece /\ other.color # piece.color

\* Pawn.getValidMoves, as the set of squares it returns.
Pawn_getValidMoves(b, sq, enPassantTarget) ==
    LET piece == b[sq]
        row == Row(sq)
        col == Col(sq)
        direction == IF piece.color = White THEN 0 - 1 ELSE 1
        startRow == IF piece.color = White THEN 6 ELSE 1
        oneForward == row + direction
        twoForward == row + direction * 2
        one == IF Piece_isValidPosition(oneForward, col) /\ b[Pos(oneForward, col)] = NoPiece
               THEN {Pos(oneForward, col)} ELSE {}
        two == IF /\ ~piece.hasMoved
                  /\ row = startRow
                  /\ Piece_isValidPosition(twoForward, col)
                  /\ b[Pos(twoForward, col)] = NoPiece
                  /\ b[Pos(oneForward, col)] = NoPiece
               THEN {Pos(twoForward, col)} ELSE {}
        captures == {Pos(oneForward, c) : c \in {c \in {col - 1, col + 1} :
                        /\ Piece_isValidPosition(oneForward, c)
                        /\ Piece_isOpponent(piece, b[Pos(oneForward, c)])}}
        enPassant == IF /\ enPassantTarget # NoPos
                        /\ Row(enPassantTarget) = row + direction
                        /\ Col(enPassantTarget) \in {col - 1, col + 1}
                     THEN {enPassantTarget} ELSE {}
    IN  one \cup two \cup captures \cup enPassant

\* Knight.getValidMoves.
Knight_getValidMoves(b, sq) ==
    LET knightMoves == {<<0 - 2, 0 - 1>>, <<0 - 2, 1>>, <<0 - 1, 0 - 2>>, <<0 - 1, 2>>,
                        <<1, 0 - 2>>, <<1, 2>>, <<2, 0 - 1>>, <<2, 1>>}
    IN  {Pos(Row(sq) + move[1], Col(sq) + move[2]) : move \in {move \in knightMoves :
            /\ Piece_isValidPosition(Row(sq) + move[1], Col(sq) + move[2])
            /\ LET piece == b[Pos(Row(sq) + move[1], Col(sq) + move[2])]
               IN  piece = NoPiece \/ Piece_isOpponent(b[sq], piece)}}

StraightDirections == {<<0 - 1, 0>>, <<1, 0>>, <<0, 0 - 1>>, <<0, 1>>}

DiagonalDirections == {<<0 - 1, 0 - 1>>, <<0 - 1, 1>>, <<1, 0 - 1>>, <<1, 1>>}

\* The loop of Queen.getValidMoves along one direction, from step i on.
RECURSIVE Queen_slide(_, _, _, _)
Queen_slide(b, sq, dir, i) ==
    LET newRow == Row(sq) + dir[1] * i
        newCol == Col(sq) + dir[2] * i
    IN  IF i >= BOARD_SIZE \/ ~Piece_isValidPosition(newRow, newCol) THEN {}
        ELSE IF b[Pos(newRow, newCol)] = NoPiece
        THEN {Pos(newRow, newCol)} \cup Queen_slide(b, sq, dir, i + 1)
        ELSE IF Piece_isOpponent(b[sq], b[Pos(newRow, newCol)]) THEN {Pos(newRow, newCol)}
        ELSE {}

\* Queen.getValidMoves.
Queen_getValidMoves(b, sq) ==
    UNION {Queen_slide(b, sq, dir, 1) : dir \in StraightDirections \cup DiagonalDirections}

Rook_getValidMoves(b, sq) == UNION {Queen_slide(b, sq, dir, 1) : dir \in StraightDirections}

Bishop_getValidMoves(b, sq) == UNION {Queen_slide(b, sq, dir, 1) : dir \in DiagonalDirections}

\* The gameState a piece is handed answers isInCheck(color) and
\* isSquareAttacked(row, col, color); the one caller of either is the king,
\* about its own color and the squares of its row.  Here the king is handed
\* the two answers: gameStateIsInCheck, and gameStateAttacked, the squares of
\* its row for which isSquareAttacked answers true.
\* King.canCastleKingside / canCastleQueenside.
King_canCastleKingside(b, sq, gameStateAttacked) ==
    LET row == Row(sq)
        rook == b[Pos(row, 7)]
    IN  /\ rook # NoPiece /\ rook.type = "rook" /\ ~rook.hasMoved /\ rook.color = b[sq].color
        /\ b[Pos(row, 5)] = NoPiece /\ b[Pos(row, 6)] = NoPiece
        /\ Pos(row, 5) \notin gameStateAttacked
        /\ Pos(row, 6) \notin gameStateAttacked

King_canCastleQueenside(b, sq, gameStateAttacked) ==
    LET row == Row(sq)
        rook == b[Pos(row, 0)]
    IN  /\ rook # NoPiece /\ rook.type = "rook" /\ ~rook.hasMoved /\ rook.color = b[sq].color
        /\ b[Pos(row, 1)] = NoPiece /\ b[Pos(row, 2)] = NoPiece /\ b[Pos(row, 3)] = NoPiece
        /\ Pos(row, 2) \notin gameStateAttacked
        /\ Pos(row, 3) \notin gameStateAttacked

\* King.getValidMoves.
King_getValidMoves(b, sq, gameStateIsInCheck, gameStateAttacked) ==
    LET regular == {Pos(Row(sq) + dir[1], Col(sq) + dir[2]) :
                       dir \in {dir \in StraightDirections \cup DiagonalDirections :
                           /\ Piece_isValidPosition(Row(sq) + dir[1], Col(sq) + dir[2])
                           /\ LET piece == b[Pos(Row(sq) + dir[1], Col(sq) + dir[2])]
                              IN  piece = NoPiece \/ Piece_isOpponent(b[sq], piece)}}
        castling == IF ~b[sq].hasMoved /\ ~gameStateIsInCheck
                    THEN (IF King_canCastleKingside(b, sq, gameStateAttacked)
                          THEN {Pos(Row(sq), 6)} ELSE {})
                         \cup (IF King_canCastleQueenside(b, sq, gameStateAttacked)
                               THEN {Pos(Row(sq), 2)} ELSE {})
                    ELSE {}
    IN  regular \cup castling

\* piece.getValidMoves(board, gameState) for the piece on sq.
Piece_getValidMoves(b, sq, enPassantTarget, gameStateIsInCheck, gameStateAttacked) ==
    CASE b[sq].type = "pawn" -> Pawn_getValidMoves(b, sq, enPassantTarget)
      [] b[sq].type = "knight" -> Knight_getValidMoves(b, sq)
      [] b[sq].type = "bishop" -> Bishop_getValidMoves(b, sq)
      [] b[sq].type = "rook" -> Rook_getValidMoves(b, sq)
      [] b[sq].type = "queen" -> Queen_getValidMoves(b, sq)
      [] b[sq].type = "king" -> King_getValidMoves(b, sq, gameStateIsInCheck, gameStateAttacked)
      [] OTHER -> {}

\* GameController.isSquareAttacked on a board and an en-passant target: the
\* pieces are handed simplifiedGameState, whose isInCheck and isSquareAttacked
\* answer false.
GameController_isSquareAttacked(b, enPassantTarget, row, col, defendingColor) ==
    \E sq \in Squares :
        /\ b[sq] # NoPiece
        /\ b[sq].color = Opponent(defendingColor)
        /\ Pos(row, col) \in Piece_getValidMoves(b, sq, enPassantTarget, FALSE, {})

\* GameController.findKing and isInCheck.
GameController_isInCheck(b, enPassantTarget, color) ==
    LET kings == {sq \in Squares : b[sq].type = "king" /\ b[sq].color = color}
    IN  /\ kings # {}
        /\ LET king == CHOOSE sq \in kings : \A other \in kings : sq <= other
           IN  GameController_isSquareAttacked(b, enPassantTarget, Row(king), Col(king), color)

\* GameController.wouldMoveLeaveKingInCheck for the piece on sq.
GameController_wouldMoveLeaveKingInCheck(b, enPassantTarget, sq, move) ==
    LET moved == [b EXCEPT ![move] = b[sq], ![sq] = NoPiece]
    IN  GameController_isInCheck(moved, enPassantTarget, b[sq].color)

\* GameController.getValidMovesForPiece for the piece on sq, with the
\* gameState of getGameState.
GameController_getValidMovesForPiece(c, sq) ==
    LET color == c.board[sq].color
        moves == Piece_getValidMoves(c.board, sq, c.enPassantTarget,
                     GameController_isInCheck(c.board, c.enPassantTarget, color),
                     {Pos(Row(sq), col) : col \in {col \in 0 .. (BOARD_SIZE - 1) :
                         GameController_isSquareAttacked(c.board, c.enPassantTarget,
                                                         Row(sq), col, color)}})
    IN  {move \in moves :
            ~GameController_wouldMoveLeaveKingInCheck(c.board, c.enPassantTarget, sq, move)}

\* The loop of isCheckmate and isStalemate: no piece of the color has a move.
HasNoMove(c, color) ==
    \A sq \in Squares :
        (c.board[sq] # NoPiece /\ c.board[sq].color = color)
            => GameController_getValidMovesForPiece(c, sq) = {}

\* GameController.updateGameStatus.
GameController_updateGameStatus(c) ==
    LET inCheck == GameController_isInCheck(c.board, c.enPassantTarget, c.currentPlayer)
    IN  [c EXCEPT !.gameStatus =
            IF inCheck /\ HasNoMove(c, c.currentPlayer) THEN GAME_STATUS.CHECKMATE
            ELSE IF ~inCheck /\ HasNoMove(c, c.currentPlayer) THEN GAME_STATUS.STALEMATE
            ELSE IF inCheck THEN GAME_STATUS.CHECK
            ELSE GAME_STATUS.IN_PROGRESS]

\* new HistoryManager(): currentIndex is -1; entry i of the source is history[i + 1].
NewHistoryManager == [history |-> <<>>, currentIndex |-> 0 - 1]

\* HistoryManager.addMove.
HistoryManager_addMove(h, moveData, boardState) ==
    LET kept == IF h.currentIndex < Len(h.history) - 1
                THEN SubSeq(h.history, 1, h.currentIndex + 1)
                ELSE h.history
    IN  [history |-> Append(kept, [move |-> moveData, boardState |-> boardState]),
         currentIndex |-> Len(kept)]

\* The navigation methods of HistoryManager return [h, ok: an entry was returned].
HistoryManager_goBack(h) ==
    IF h.currentIndex > 0
    THEN [h |-> [h EXCEPT !.currentIndex = @ - 1], ok |-> TRUE]
    ELSE [h |-> h, ok |-> FALSE]

HistoryManager_goForward(h) ==
    IF h.currentIndex < Len(h.history) - 1
    THEN [h |-> [h EXCEPT !.currentIndex = @ + 1], ok |-> TRUE]
    ELSE [h |-> h, ok |-> FALSE]

HistoryManager_goToMove(h, index) ==
    IF index < 0 \/ index >= Len(h.history) THEN [h |-> h, ok |-> FALSE]
    ELSE [h |-> [h EXCEPT !.currentIndex = index], ok |-> TRUE]

HistoryManager_goToCurrent(h) ==
    IF Len(h.history) = 0 THEN [h |-> h, ok |-> FALSE]
    ELSE [h |-> [h EXCEPT !.currentIndex = Len(h.history) - 1], ok |-> TRUE]

\* new ChessGame(): ChessBoard.createStandard() and new GameController(board).
\* selectedPiece is the square of the selected Piece object, and
\* selectedIsOnBoard says whether that object is still the one on the board.
\* isNavigatingHistory is false whenever a method has returned.  `held` is not
\* a field of the source: held[i + 1] is the state the controller was in when
\* entry i was added to the history.
NewChessGame ==
    [board |-> ChessBoard_initializeBoard,
     currentPlayer |-> White,
     gameStatus |-> GAME_STATUS.IN_PROGRESS,
     selectedPiece |-> NoPos,
     selectedIsOnBoard |-> FALSE,
     capturedPieces |-> [white |-> <<>>, black |-> <<>>],
     moveHistory |-> <<>>,
     enPassantTarget |-> NoPos,
     historyManager |-> NewHistoryManager,
     held |-> <<>>]

\* What the controller holds besides the history: the state a history entry
\* stands for.
ControllerState(c) ==
    [placement |-> [sq \in Squares |-> [type |-> c.board[sq].type, color |-> c.board[sq].color]],
     currentPlayer |-> c.currentPlayer,
     enPassantTarget |-> c.enPassantTarget,
     capturedPieces |-> c.capturedPieces]

\* GameController.handleSpecialMoves.
GameController_handleSpecialMoves(c, piece, from, to) ==
    LET castled ==
            IF piece.type = "king" /\ (Col(to) - Col(from) = 2 \/ Col(from) - Col(to) = 2)
            THEN IF Col(to) = 6
                 THEN ChessBoard_movePiece(c.board, Pos(Row(to), 7), Pos(Row(to), 5)).b
                 ELSE IF Col(to) = 2
                 THEN ChessBoard_movePiece(c.board, Pos(Row(to), 0), Pos(Row(to), 3)).b
                 ELSE c.board
            ELSE c.board
        capturedPawnRow == IF piece.color = White THEN Row(to) + 1 ELSE Row(to) - 1
        capturedPawn == IF Piece_isValidPosition(capturedPawnRow, Col(to))
                        THEN castled[Pos(capturedPawnRow, Col(to))] ELSE NoPiece
    IN  IF /\ piece.type = "pawn"
           /\ c.enPassantTarget # NoPos
           /\ to = c.enPassantTarget
           /\ capturedPawn # NoPiece
        THEN [c EXCEPT !.capturedPieces[capturedPawn.color] = Append(@, capturedPawn),
                       !.board = ChessBoard_setPieceAt(castled, capturedPawnRow, Col(to), NoPiece)]
        ELSE [c EXCEPT !.board = castled]

\* GameController.updateEnPassantTarget.
GameController_updateEnPassantTarget(c, piece, from, to) ==
    IF piece.type = "pawn" /\ (Row(to) - Row(from) = 2 \/ Row(from) - Row(to) = 2)
    THEN [c EXCEPT !.enPassantTarget =
             Pos(Row(from) + (IF piece.color = White THEN 0 - 1 ELSE 1), Col(from))]
    ELSE [c EXCEPT !.enPassantTarget = NoPos]

\* GameController.handlePawnPromotion: a pawn on the last row becomes a queen.
GameController_handlePawnPromotion(c, piece, position) ==
    IF piece.type = "pawn" /\ Row(position) = (IF piece.color = White THEN 0 ELSE 7)
    THEN [c EXCEPT !.board = ChessBoard_setPieceAt(@, Row(position), Col(position),
                                 Piece("queen", piece.color, TRUE))]
    ELSE c

\* GameController.switchTurn.
GameController_switchTurn(c) == [c EXCEPT !.currentPlayer = Opponent(@)]

\* GameController.executeMove.
GameController_executeMove(c, from, to) ==
    LET piece == c.board[from]
        moved == ChessBoard_movePiece(c.board, from, to)
        c1 == [c EXCEPT !.board = moved.b,
                        !.capturedPieces = IF moved.captured # NoPiece
                                           THEN [@ EXCEPT ![moved.captured.color] =
                                                    Append(@, moved.captured)]
                                           ELSE @]
        c2 == GameController_updateEnPassantTarget(
                  GameController_handleSpecialMoves(c1, piece, from, to), piece, from, to)
        moveData == [from |-> from, to |-> to, piece |-> piece.type, color |-> piece.color,
                     captured |-> IF moved.captured # NoPiece THEN moved.captured.type
                                  ELSE "none"]
        c3 == GameController_handlePawnPromotion(
                  [c2 EXCEPT !.moveHistory = Append(@, moveData)], piece, to)
        c4 == GameController_updateGameStatus(GameController_switchTurn(c3))
    IN  IF piece = NoPiece THEN c
        ELSE [c4 EXCEPT !.held = Append(SubSeq(@, 1, IF c.historyManager.currentIndex
                                                          < Len(c.historyManager.history) - 1
                                                       THEN c.historyManager.currentIndex + 1
                                                       ELSE Len(@)),
                                         ControllerState(c4)),
                        !.historyManager = HistoryManager_addMove(@, moveData,
                                               ChessBoard_serialize(c4.board))]

\* GameController.selectPiece.
GameController_selectPiece(c, sq) ==
    [c EXCEPT !.selectedPiece = sq, !.selectedIsOnBoard = TRUE]

\* The valid moves of the selected Piece object: none when the object is no
\* longer the one on the board.
SelectedMoves(c) ==
    IF c.selectedIsOnBoard THEN GameController_getValidMovesForPiece(c, c.selectedPiece)
    ELSE {}

\* GameController.handleSquareClick.
GameController_handleSquareClick(c, row, col) ==
    LET piece == c.board[Pos(row, col)]
        deselected == [c EXCEPT !.selectedPiece = NoPos, !.selectedIsOnBoard = FALSE]
    IN  IF c.selectedPiece # NoPos
        THEN IF Pos(row, col) \in SelectedMoves(c)
             THEN [GameController_executeMove(c, c.selectedPiece, Pos(row, col))
                       EXCEPT !.selectedPiece = NoPos, !.selectedIsOnBoard = FALSE]
             ELSE IF piece # NoPiece /\ piece.color = c.currentPlayer
             THEN GameController_selectPiece(c, Pos(row, col))
             ELSE deselected
        ELSE IF piece # NoPiece /\ piece.color = c.currentPlayer
        THEN GameController_selectPiece(c, Pos(row, col))
        ELSE c

\* GameController.restoreBoardState: the board gets new Piece objects, so a
\* selected Piece object is no longer on it.
GameController_restoreBoardState(c, boardState) ==
    [c EXCEPT !.board = ChessBoard_deserialize(boardState), !.selectedIsOnBoard = FALSE]

\* GameController.updateGameStateFromHistory.
GameController_updateGameStateFromHistory(c) ==
    LET h == c.historyManager
    IN  GameController_updateGameStatus(
            [c EXCEPT !.currentPlayer =
                IF h.currentIndex >= 0 /\ h.currentIndex < Len(h.history)
                THEN Opponent(h.history[h.currentIndex + 1].move.color)
                ELSE White])

\* The shared tail of goBack, goForward, goToMove and resetToCurrent.
Landed(c, nav) ==
    IF nav.ok
    THEN GameController_updateGameStateFromHistory(
             GameController_restoreBoardState([c EXCEPT !.historyManager = nav.h],
                 nav.h.history[nav.h.currentIndex + 1].boardState))
    ELSE [c EXCEPT !.historyManager = nav.h]

GameController_goBack(c) ==
    IF c.historyManager.currentIndex > 0
    THEN Landed(c, HistoryManager_goBack(c.historyManager))
    ELSE c

GameController_goForward(c) ==
    IF c.historyManager.currentIndex < Len(c.historyManager.history) - 1
    THEN Landed(c, HistoryManager_goForward(c.historyManager))
    ELSE c

GameController_goToMove(c, index) == Landed(c, HistoryManager_goToMove(c.historyManager, index))

GameController_resetToCurrent(c) ==
    IF c.historyManager.currentIndex = Len(c.historyManager.history) - 1 THEN c
    ELSE Landed(c, HistoryManager_goToCurrent(c.historyManager))

\* new GameUI(): nothing selected, two-player mode, the AI of the constructor
\* (medium, black), the board open to clicks, no makeAIMove waiting for its
\* delay, no promotion modal, the history panel not yet drawn.
NewGameUI ==
    [selectedSquare |-> NoPos,
     validMoves |-> <<>>,
     isAIEnabled |-> FALSE,
     difficulty |-> "medium",
     pointerEvents |-> "auto",
     thinking |-> 0,
     modal |-> NoPos,
     backDisabled |-> FALSE,
     forwardDisabled |-> FALSE,
     items |-> 0]

GameBecomes(g) ==
    /\ board' = g.board
    /\ currentPlayer' = g.currentPlayer
    /\ status' = g.status
    /\ moveHistory' = g.moveHistory
    /\ capturedPieces' = g.capturedPieces
    /\ selectedPiece' = g.selectedPiece
    /\ pendingPromotion' = g.pendingPromotion
    /\ history' = g.history
    /\ UNCHANGED line

Becomes(g) == GameBecomes(g) /\ UNCHANGED <<ui, legacy>>

InLine == Len(moveHistory) < Len(Lines[line].moves)

NextInLine == Lines[line].moves[Len(moveHistory) + 1]

SelectInputs == IF InLine THEN {NextInLine.from} ELSE Lines[line].clicks

MoveInputs == IF InLine THEN {NextInLine.to} ELSE Lines[line].clicks

\* Indices handed to goToHistoryPoint: one below and one beyond the log, and
\* the snapshots at most MaxBack behind the latest.
LatestIndex == Len(history.snapshots) - 1

WithinReach(index) == index >= LatestIndex - MaxBack

HistoryPoints == {index \in (0 - 1) .. (LatestIndex + 1) : index = 0 - 1 \/ WithinReach(index)}

Init ==
    /\ line \in 1 .. Len(Lines)
    /\ board = NewGame.board
    /\ currentPlayer = NewGame.currentPlayer
    /\ status = NewGame.status
    /\ moveHistory = NewGame.moveHistory
    /\ capturedPieces = NewGame.capturedPieces
    /\ selectedPiece = NewGame.selectedPiece
    /\ pendingPromotion = NewGame.pendingPromotion
    /\ history = NewGame.history
    /\ ui = NewGameUI
    /\ legacy = NewChessGame

SelectPiece(pos) == Becomes(selectPiece(Game, pos).g)

ClearSelection == Becomes(clearSelection(Game))

MakeMove(to) ==
    /\ Len(moveHistory) < Len(Lines[line].moves) + MaxFree
    /\ Becomes(makeMove(Game, to).g)

PromotePawn(pieceType) == Becomes(promotePawn(Game, pieceType).g)

UndoMove ==
    /\ WithinReach(history.currentSnapshotIndex - 1)
    /\ Becomes(undoMove(Game).g)

RedoMove == Becomes(redoMove(Game).g)

GoToHistoryPoint(index) == Becomes(goToHistoryPoint(Game, index).g)

GoToStart ==
    /\ WithinReach(0)
    /\ Becomes(goToStart(Game).g)

GoToLatest == Becomes(goToLatest(Game).g)

Reset == Becomes(reset(Game))

Next ==
    \/ \E pos \in SelectInputs : SelectPiece(pos)
    \/ ClearSelection
    \/ \E to \in MoveInputs : MakeMove(to)
    \/ \E pieceType \in PromotionInputs : PromotePawn(pieceType)
    \/ UndoMove
    \/ RedoMove
    \/ \E index \in HistoryPoints : GoToHistoryPoint(index)
    \/ GoToStart
    \/ GoToLatest
    \/ Reset

Spec == Init /\ [][Next]_vars

(***************************************************************************)
(* A game the AI is asked about: the prepared line is played, then         *)
(* MaxReply further plies with clicks on the squares the line names, a     *)
(* pending promotion being completed with any of the four types.           *)
(***************************************************************************)
MaxReply == 1

MakeReply(to) ==
    /\ Len(moveHistory) < Len(Lines[line].moves) + MaxReply
    /\ Becomes(makeMove(Game, to).g)

NextAI ==
    \/ \E pos \in SelectInputs : SelectPiece(pos)
    \/ \E to \in MoveInputs : MakeReply(to)
    \/ \E pieceType \in PromotionTypes : PromotePawn(pieceType)

SpecAI == Init /\ [][NextAI]_vars

(***************************************************************************)
(* The GameUI in AI mode.  The user clicks on squares of the board, picks  *)
(* a piece in the promotion modal, and clicks the four history buttons and *)
(* the items of the history list; makeAIMove awaits its thinking delay,    *)
(* and what follows the delay runs as a step of its own, after whatever    *)
(* events the user raised in between.  The game shown is one reached in AI *)
(* mode: the starting position, or a prepared line in which the easy tier, *)
(* which may return any legal ply, answered with the line's black plies.   *)
(* The promotion modal is taken to cover the page: while it is open the    *)
(* one event is the choice of a piece.                                     *)
(***************************************************************************)
\* The plies the user makes on the board after the prepared line.
MaxUIPlies == 1

\* The lines shown in the UI: free play, and the line that ends before a promotion.
UILines == {1, 3}

\* GameHistory.canGoBack / canGoForward.
canGoBack(h) == h.currentSnapshotIndex > 0

canGoForward(h) == h.currentSnapshotIndex < Len(h.snapshots) - 1

\* updateUI as far as it decides which events can follow: updateHistoryUI
\* draws one item for every snapshot but the first and sets the buttons.
updateUI(u, g) ==
    [u EXCEPT !.backDisabled = ~canGoBack(g.history),
              !.forwardDisabled = ~canGoForward(g.history),
              !.items = Len(g.history.snapshots) - 1]

\* The game after the first k plies of a line were played on it.
RECURSIVE PlayLine(_, _, _)
PlayLine(g, moves, k) ==
    IF k = 0 THEN g
    ELSE CHOOSE after \in {makeMove(selectPiece(before, moves[k].from).g, moves[k].to).g :
                               before \in {PlayLine(g, moves, k - 1)}} : TRUE

\* startGame with mode AI and the given difficulty, then the line.
InitUI ==
    /\ line \in UILines
    /\ \E g \in {PlayLine(NewGame, Lines[line].moves, Len(Lines[line].moves))} :
           /\ board = g.board
           /\ currentPlayer = g.currentPlayer
           /\ status = g.status
           /\ moveHistory = g.moveHistory
           /\ capturedPieces = g.capturedPieces
           /\ selectedPiece = g.selectedPiece
           /\ pendingPromotion = g.pendingPromotion
           /\ history = g.history
           /\ \E difficulty \in (IF Len(Lines[line].moves) = 0 THEN {"easy", "medium"}
                                  ELSE {"easy"}) :
                  ui = updateUI([NewGameUI EXCEPT !.isAIEnabled = TRUE,
                                                  !.difficulty = difficulty], g)
    /\ legacy = NewChessGame

UIBecomes(g, u) == GameBecomes(g) /\ ui' = u /\ UNCHANGED legacy

\* The condition under which handleMove and handlePromotion call makeAIMove.
AIIsToMove(u, g) == u.isAIEnabled /\ g.currentPlayer = Black /\ ~isGameOver(g)

\* makeAIMove up to its await: the board stops taking clicks.
StartThinking(u) == [u EXCEPT !.pointerEvents = "none", !.thinking = @ + 1]

\* handleMove after its call of makeMove returned `moved`: [g, u] afterwards.
afterMakeMove(moved, u, cleared) ==
    IF ~moved.r.success THEN [g |-> moved.g, u |-> u]
    ELSE IF moved.r.needsPromotion /\ moved.r.promotionPosition # NoPos
    THEN [g |-> moved.g, u |-> [cleared EXCEPT !.modal = moved.r.promotionPosition]]
    ELSE [g |-> moved.g,
          u |-> IF AIIsToMove(cleared, moved.g)
                THEN StartThinking(updateUI(cleared, moved.g))
                ELSE updateUI(cleared, moved.g)]

\* handleMove: [g, u] afterwards.
handleMove(g, u, to) ==
    CHOOSE next \in {afterMakeMove(moved, u, [u EXCEPT !.selectedSquare = NoPos,
                                                        !.validMoves = <<>>]) :
                         moved \in {makeMove(g, to)}} : TRUE

\* handleSelection.
handleSelection(g, u, position) ==
    IF getPiece(g.board, position) # NoPiece
           /\ getPiece(g.board, position).color = g.currentPlayer
    THEN CHOOSE next \in {[g |-> selected.g,
                           u |-> [u EXCEPT !.selectedSquare = position,
                                           !.validMoves = selected.r]] :
                              selected \in {selectPiece(g, position)}} : TRUE
    ELSE [g |-> clearSelection(g),
          u |-> [u EXCEPT !.selectedSquare = NoPos, !.validMoves = <<>>]]

\* The square the king goes to when the rook on `position` is clicked with
\* the king selected on its home square; NoPos for null.
castlingTarget(selectedOne, selectedSquare, position) ==
    IF selectedOne.color = White /\ selectedSquare = Pos(7, 4)
    THEN IF position = Pos(7, 7) THEN Pos(7, 6)
         ELSE IF position = Pos(7, 0) THEN Pos(7, 2) ELSE NoPos
    ELSE IF selectedOne.color = Black /\ selectedSquare = Pos(0, 4)
    THEN IF position = Pos(0, 7) THEN Pos(0, 6)
         ELSE IF position = Pos(0, 0) THEN Pos(0, 2) ELSE NoPos
    ELSE NoPos

\* The square handleBoardClick hands to handleMove: the clicked square when it
\* is a valid move, the castling square when the king is selected and its own
\* rook is clicked; NoPos when the click goes to handleSelection.
moveTarget(g, u, position) ==
    IF u.selectedSquare = NoPos THEN NoPos
    ELSE IF Contains(u.validMoves, position) THEN position
    ELSE LET selectedOne == getPiece(g.board, u.selectedSquare)
             targetPiece == getPiece(g.board, position)
             target == IF /\ selectedOne.type = "king"
                          /\ targetPiece.type = "rook"
                          /\ selectedOne.color = targetPiece.color
                       THEN castlingTarget(selectedOne, u.selectedSquare, position)
                       ELSE NoPos
         IN  IF target # NoPos /\ Contains(u.validMoves, target) THEN target ELSE NoPos

\* handleBoardClick on a square.
handleBoardClick(g, u, position) ==
    IF moveTarget(g, u, position) # NoPos
    THEN handleMove(g, u, moveTarget(g, u, position))
    ELSE handleSelection(g, u, position)

\* handlePromotion after promotePawn left the game `promoted`.
afterPromotePawn(promoted, u) ==
    [g |-> promoted,
     u |-> IF AIIsToMove(u, promoted)
           THEN StartThinking(updateUI([u EXCEPT !.modal = NoPos], promoted))
           ELSE updateUI([u EXCEPT !.modal = NoPos], promoted)]

\* handlePromotion.
handlePromotion(g, u, pieceType) ==
    CHOOSE next \in {afterPromotePawn(promoted, u) :
                         promoted \in {promotePawn(g, pieceType).g}} : TRUE

\* onHistoryChange after a history method returned true; nothing otherwise.
historyListener(u, nav) ==
    [g |-> nav.g,
     u |-> IF nav.r
           THEN [updateUI(u, nav.g) EXCEPT !.selectedSquare = NoPos, !.validMoves = <<>>]
           ELSE u]

\* makeAIMove after its makeMove returned `moved`: the pawn that reached the
\* last rank is promoted to a queen.
afterAIMove(moved) ==
    IF moved.r.needsPromotion THEN promotePawn(moved.g, "queen").g ELSE moved.g

\* makeAIMove after its delay, for one value aiMove of getBestMove.
makeAIMoveAfterDelay(g, u, aiMove) ==
    IF aiMove # NoAIMove
    THEN CHOOSE next \in {[g |-> after,
                           u |-> updateUI([u EXCEPT !.pointerEvents = "auto",
                                                    !.thinking = @ - 1], after)] :
                              after \in {afterAIMove(moved) :
                                            moved \in {makeMove(selectPiece(g, aiMove.from).g,
                                                                aiMove.to)}}} : TRUE
    ELSE [g |-> g, u |-> [u EXCEPT !.pointerEvents = "auto", !.thinking = @ - 1]]

\* The AI the GameUI holds.
UIAI == [difficulty |-> ui.difficulty, color |-> Black]

BoardOpen == ui.pointerEvents = "auto" /\ ui.modal = NoPos

BoardClick(position) ==
    /\ BoardOpen
    /\ Len(moveHistory) < Len(Lines[line].moves) + MaxUIPlies
    /\ \E next \in {handleBoardClick(Game, ui, position)} : UIBecomes(next.g, next.u)

PromotionChoice(pieceType) ==
    /\ ui.modal # NoPos
    /\ \E next \in {handlePromotion(Game, ui, pieceType)} : UIBecomes(next.g, next.u)

\* History clicks stay behind the prepared line: they go to the snapshots
\* of the plies made after it.
BehindLine(index) == index >= Len(Lines[line].moves)

HistoryClick(nav, disabled) ==
    /\ ui.modal = NoPos
    /\ ~disabled
    /\ \E next \in {historyListener(ui, nav)} : UIBecomes(next.g, next.u)

HistoryStartClick ==
    /\ BehindLine(0)
    /\ HistoryClick(goToStart(Game), ui.backDisabled)

HistoryBackClick ==
    /\ BehindLine(history.currentSnapshotIndex - 1)
    /\ HistoryClick(undoMove(Game), ui.backDisabled)

HistoryForwardClick == HistoryClick(redoMove(Game), ui.forwardDisabled)

HistoryEndClick == HistoryClick(goToLatest(Game), ui.forwardDisabled)

HistoryItemClick(index) ==
    /\ BehindLine(index)
    /\ HistoryClick(goToHistoryPoint(Game, index), FALSE)

AIThinkingEnds ==
    /\ ui.thinking > 0
    /\ \E aiMove \in getBestMove(UIAI, Game) :
           \E next \in {makeAIMoveAfterDelay(Game, ui, aiMove)} :
               UIBecomes(next.g, next.u)

NextUI ==
    \/ \E position \in Lines[line].clicks : BoardClick(position)
    \/ \E pieceType \in PromotionTypes : PromotionChoice(pieceType)
    \/ HistoryStartClick
    \/ HistoryBackClick
    \/ HistoryForwardClick
    \/ HistoryEndClick
    \/ \E index \in 1 .. ui.items : HistoryItemClick(index)
    \/ AIThinkingEnds

SpecUI == InitUI /\ [][NextUI]_vars

(***************************************************************************)
(* The legacy game: clicks on a few squares of its board and the history   *)
(* controls, until MaxLegacyPlies plies have been executed in all.         *)
(***************************************************************************)
MaxLegacyPlies == 6

\* b1, c3, d5, c7, e7, d7, d6, e6 and d8: the white knight can reach and take
\* c7 and e7, black answers with pawns and queen.
LegacyClicks ==
    {Sq("b", 1), Sq("c", 3), Sq("d", 5), Sq("c", 7), Sq("e", 7), Sq("d", 7), Sq("d", 6),
     Sq("e", 6), Sq("d", 8)}

InitLegacy == Init /\ line = 1

LegacyBecomes(c) ==
    /\ legacy' = c
    /\ UNCHANGED <<board, currentPlayer, status, moveHistory, capturedPieces,
                   selectedPiece, pendingPromotion, history, line, ui>>

LegacySquareClick(position) ==
    /\ Len(legacy.moveHistory) < MaxLegacyPlies
    /\ LegacyBecomes(GameController_handleSquareClick(legacy, Row(position), Col(position)))

LegacyGoBack == LegacyBecomes(GameController_goBack(legacy))

LegacyGoForward == LegacyBecomes(GameController_goForward(legacy))

LegacyGoToMove(index) == LegacyBecomes(GameController_goToMove(legacy, index))

LegacyResetToCurrent == LegacyBecomes(GameController_resetToCurrent(legacy))

NextLegacy ==
    \/ \E position \in LegacyClicks : LegacySquareClick(position)
    \/ LegacyGoBack
    \/ LegacyGoForward
    \/ \E index \in 0 .. Len(legacy.historyManager.history) - 1 : LegacyGoToMove(index)
    \/ LegacyResetToCurrent

SpecLegacy == InitLegacy /\ [][NextLegacy]_vars

(***************************************************************************)
(* The rules of chess the claims speak of, stated apart from the engine:   *)
(* which squares a piece attacks.  A pawn attacks the two squares          *)
(* diagonally ahead of it whether or not anything stands there.            *)
(***************************************************************************)
Sign(n) == IF n > 0 THEN 1 ELSE IF n < 0 THEN 0 - 1 ELSE 0

Max(a, b) == IF a >= b THEN a ELSE b

\* Every square strictly between two squares of one rank, file or diagonal is empty.
ClearBetween(squares, from, target) ==
    LET dr == Sign(Row(target) - Row(from))
        dc == Sign(Col(target) - Col(from))
        n == Max(Abs(Row(target) - Row(from)), Abs(Col(target) - Col(from)))
    IN  \A k \in 1 .. (n - 1) : squares[Pos(Row(from) + k * dr, Col(from) + k * dc)] = NoPiece

Attacks(squares, from, target) ==
    LET p == squares[from]
        dr == Row(target) - Row(from)
        dc == Col(target) - Col(from)
        straight == (dr = 0 \/ dc = 0) /\ from # target
        diagonal == Abs(dr) = Abs(dc) /\ from # target
    IN  CASE p.type = "pawn" -> dr = PawnDirection(p.color) /\ Abs(dc) = 1
          [] p.type = "knight" -> {Abs(dr), Abs(dc)} = {1, 2}
          [] p.type = "king" -> Max(Abs(dr), Abs(dc)) = 1
          [] p.type = "rook" -> straight /\ ClearBetween(squares, from, target)
          [] p.type = "bishop" -> diagonal /\ ClearBetween(squares, from, target)
          [] p.type = "queen" -> (straight \/ diagonal) /\ ClearBetween(squares, from, target)
          [] OTHER -> FALSE

AttackedBy(squares, target, color) ==
    \E from \in Squares : squares[from].color = color /\ Attacks(squares, from, target)

\* Some king of the colour stands on a square the other colour attacks.
KingAttacked(g, color) ==
    \E sq \in Squares :
        /\ g.board.squares[sq].type = "king"
        /\ g.board.squares[sq].color = color
        /\ AttackedBy(g.board.squares, sq, Opponent(color))

\* The player to move has a legal move: some piece of theirs has a destination
\* that survives the engine's filter.
LegalMoveExists(g) ==
    \E from \in Squares :
        /\ g.board.squares[from].color = g.currentPlayer
        /\ getValidMovesForPiece(g.board, from) # <<>>

StatusMapping(g) ==
    IF ~LegalMoveExists(g)
    THEN (IF KingAttacked(g, g.currentPlayer) THEN "checkmate" ELSE "stalemate")
    ELSE IF KingAttacked(g, g.currentPlayer) THEN "check"
    ELSE "in_progress"

\* The destinations makeMove is tried with: the squares clicked in the line of
\* play, the destination of its next prepared ply, and the four corners.
Targets ==
    Lines[line].clicks
        \cup MoveInputs
        \cup {Pos(0, 0), Pos(0, 7), Pos(7, 0), Pos(7, 7)}

NoPending == pendingPromotion = NoPromotion

Cursor == history.currentSnapshotIndex

\* The king of the player to move stands unmoved on its home square.
HomeRow(color) == IF color = White THEN 7 ELSE 0

KingHome == Pos(HomeRow(currentPlayer), 4)

KingAtHome ==
    /\ board.squares[KingHome].type = "king"
    /\ board.squares[KingHome].color = currentPlayer

\* side "kingside" or "queenside": the corner, the square crossed, the landing square
Corner(side) == Pos(HomeRow(currentPlayer), IF side = "kingside" THEN 7 ELSE 0)

Crossed(side) == Pos(HomeRow(currentPlayer), IF side = "kingside" THEN 5 ELSE 3)

Landing(side) == Pos(HomeRow(currentPlayer), IF side = "kingside" THEN 6 ELSE 2)

Sides == {"kingside", "queenside"}

PathAttacked(side) ==
    \E sq \in {KingHome, Crossed(side), Landing(side)} :
        AttackedBy(board.squares, sq, Opponent(currentPlayer))

CastlingOffered(side) == Contains(selectPiece(Game, KingHome).r, Landing(side))

(***************************************************************************)
(* The claims.                                                             *)
(***************************************************************************)

\* C1: after every ply executed through selectPiece and makeMove (and promotePawn
\* where a promotion was required) the king of the side that just moved is not
\* attacked by any piece of the opponent.
C1_MoverNeverInCheck ==
    (NoPending /\ Len(moveHistory) > 0) => ~KingAttacked(Game, Opponent(currentPlayer))

C3_PendingPromotionBlocksPlay ==
    [][(pendingPromotion # NoPromotion /\ pendingPromotion' = pendingPromotion)
        => UNCHANGED <<board, currentPlayer, moveHistory, capturedPieces, history>>]_vars

\* C4: whenever undoMove() returns true, an immediate redoMove() returns true and
\* the GameState then equals the GameState before the undo.
C4_UndoThenRedoRestores ==
    LET undone == undoMove(Game)
        redone == redoMove(undone.g)
    IN  undone.r => (redone.r /\ getState(redone.g) = getState(Game))

\* C5: when the cursor stands at index i below the last snapshot and a ply is
\* finalized (a makeMove that needs no promotion, or a promotePawn), the log then
\* holds exactly i + 2 snapshots, the first i + 1 unchanged and the last one that
\* of the new position, the cursor is i + 1, and redoMove() fails.
Finalized(out) == out.r.success /\ ~out.r.needsPromotion

BranchedAt(i, out) ==
    /\ Len(out.g.history.snapshots) = i + 2
    /\ SubSeq(out.g.history.snapshots, 1, i + 1) = SubSeq(history.snapshots, 1, i + 1)
    /\ out.g.history.snapshots[i + 2].gameState = getState(out.g)
    /\ out.g.history.snapshots[i + 2].move = out.r.move
    /\ out.g.history.currentSnapshotIndex = i + 1
    /\ ~redoMove(out.g).r

C5_NewPlyTruncatesTheBranch ==
    Cursor < LatestIndex =>
        /\ selectedPiece # NoPos =>
               \A to \in ToSet(getValidMovesForPiece(board, selectedPiece)) :
                   LET out == makeMove(Game, to)
                   IN  Finalized(out) => BranchedAt(Cursor, out)
        /\ pendingPromotion # NoPromotion =>
               \A pieceType \in PromotionTypes :
                   LET out == promotePawn(Game, pieceType)
                   IN  Finalized(out) /\ BranchedAt(Cursor, out)

\* The cursor two snapshots below the last one, a piece selected that has a
\* legal move which finalizes a ply.
C5_Witness ==
    /\ Cursor + 2 <= LatestIndex
    /\ selectedPiece # NoPos
    /\ \E to \in Squares : Finalized(makeMove(Game, to))

\* C6: makeMove with no piece selected fails with 'No piece selected', makeMove to
\* a square outside the selected piece's legal destinations fails with 'Invalid
\* move', promotePawn with no promotion pending fails with 'No pending promotion';
\* each returns a result (nothing is thrown) and leaves every field of the game,
\* the snapshot log and its cursor included, as it was.
C6_FailuresChangeNothing ==
    /\ selectedPiece = NoPos =>
           \A to \in Targets :
               makeMove(Game, to) = [g |-> Game, r |-> Failure("No piece selected")]
    /\ selectedPiece # NoPos =>
           \A to \in Targets \ ToSet(selectPiece(Game, selectedPiece).r) :
               makeMove(Game, to) = [g |-> Game, r |-> Failure("Invalid move")]
    /\ \A pieceType \in PromotionInputs :
           pendingPromotion = NoPromotion
               => promotePawn(Game, pieceType) = [g |-> Game, r |-> Failure("No pending promotion")]

\* Mid-game, a piece is selected that has legal destinations and squares that are none.
C6_Witness ==
    /\ Len(moveHistory) > 0
    /\ selectedPiece # NoPos
    /\ pendingPromotion = NoPromotion
    /\ Targets \ ToSet(selectPiece(Game, selectedPiece).r) # {}
    /\ Targets \cap ToSet(selectPiece(Game, selectedPiece).r) # {}

\* C7: a makeMove that takes a pawn to its farthest rank returns success with
\* needsPromotion and the destination square and leaves currentPlayer, status,
\* moveHistory and the snapshot log as they were; and as long as that promotion
\* stays pending, they stay so.
C7_PromotionDefersTheTurn ==
    [][/\ (pendingPromotion = NoPromotion /\ pendingPromotion' # NoPromotion)
            => UNCHANGED <<currentPlayer, status, moveHistory, history>>
       /\ (pendingPromotion # NoPromotion /\ pendingPromotion' = pendingPromotion)
            => (moveHistory' = moveHistory /\ history'.snapshots = history.snapshots
                /\ currentPlayer' = currentPlayer /\ status' = status)]_vars

\* C8: promotePawn(t), t one of queen, rook, bishop, knight, with a promotion
\* pending: puts a piece of type t, of the pending colour, marked as moved, on the
\* promotion square and touches no other square; clears the pending promotion;
\* switches the player once; sets the status as the position of the new player
\* demands; appends one move (a promotion to t on that square) to moveHistory and
\* one snapshot, of the resulting state, after the snapshot under the cursor.
PromotedTo(pieceType, out) ==
    LET position == pendingPromotion.position
        i == Cursor
    IN  /\ out.r.success
        /\ out.g.board.squares =
               [board.squares EXCEPT ![position] = Piece(pieceType, pendingPromotion.color, TRUE)]
        /\ out.g.pendingPromotion = NoPromotion
        /\ out.g.currentPlayer = Opponent(currentPlayer)
        /\ out.g.status = StatusMapping(out.g)
        /\ Len(out.g.moveHistory) = Len(moveHistory) + 1
        /\ SubSeq(out.g.moveHistory, 1, Len(moveHistory)) = moveHistory
        /\ out.g.moveHistory[Len(moveHistory) + 1].type = "promotion"
        /\ out.g.moveHistory[Len(moveHistory) + 1].to = position
        /\ out.g.moveHistory[Len(moveHistory) + 1].promotionPiece = pieceType
        /\ out.g.history.snapshots =
               Append(SubSeq(history.snapshots, 1, i + 1), out.g.history.snapshots[i + 2])
        /\ out.g.history.snapshots[i + 2].gameState = getState(out.g)
        /\ out.g.history.currentSnapshotIndex = i + 1

C8_PromotePawnFinalizes ==
    pendingPromotion # NoPromotion =>
        \A pieceType \in PromotionTypes : PromotedTo(pieceType, promotePawn(Game, pieceType))

\* A pawn has been promoted to a knight: the last move made is that promotion
\* and the knight stands on its square.
C8_Witness ==
    /\ Len(moveHistory) > 0
    /\ moveHistory[Len(moveHistory)].promotionPiece = "knight"
    /\ board.squares[moveHistory[Len(moveHistory)].to].type = "knight"

\* C9: whenever a piece of the opponent (a pawn included) attacks the square of
\* the king of the player to move, the square it would cross or the square it
\* would land on, selectPiece on that king does not return the castling
\* destination of that side.
C9_NoCastlingThroughAttack ==
    \A side \in Sides : (KingAtHome /\ PathAttacked(side)) => ~CastlingOffered(side)

\* C10: whenever the king of the player to move and the rook in the corner of a
\* side have both never moved, the squares between them are empty, and none of
\* the king's square, the square crossed and the landing square is attacked,
\* selectPiece on the king returns the castling destination of that side.
CastlingDue(side) ==
    /\ KingAtHome
    /\ ~board.squares[KingHome].hasMoved
    /\ board.squares[Corner(side)] = Piece("rook", currentPlayer, FALSE)
    /\ ClearBetween(board.squares, KingHome, Corner(side))
    /\ ~PathAttacked(side)

C10_CastlingOfferedWhenDue ==
    \A side \in Sides : CastlingDue(side) => CastlingOffered(side)

\* The squares on which a king of the player to move stands.
KingsToMove ==
    {k \in Squares : board.squares[k].type = "king" /\ board.squares[k].color = currentPlayer}

\* The destinations two files away that selectPiece returns for the king on k.
CastlingDestinations(k) ==
    {to \in ToSet(selectPiece(Game, k).r) : Row(to) = Row(k) /\ Abs(Col(to) - Col(k)) = 2}

CornerToward(k, to) == Pos(Row(k), IF Col(to) > Col(k) THEN 7 ELSE 0)

\* C11: a castling destination is offered for a king only if the king has never
\* moved and is not attacked, the corner on that side holds a rook of the king's
\* colour that has never moved, and every square between king and rook is empty.
C11_CastlingOnlyWhenAllowed ==
    \A k \in KingsToMove : \A to \in CastlingDestinations(k) :
        /\ ~board.squares[k].hasMoved
        /\ ~AttackedBy(board.squares, k, Opponent(currentPlayer))
        /\ board.squares[CornerToward(k, to)] = Piece("rook", currentPlayer, FALSE)
        /\ ClearBetween(board.squares, k, CornerToward(k, to))

\* Some king is offered a castling destination after a few plies.
C11_Witness ==
    /\ Len(moveHistory) > 0
    /\ \E k \in KingsToMove : CastlingDestinations(k) # {}

(***************************************************************************)
(* Steps.  A makeMove that finalizes a ply appends a move and a snapshot   *)
(* and leaves the pending promotion as it was; a makeMove that enters      *)
(* pending promotion changes the board, sets the pending promotion and     *)
(* leaves the snapshot log alone.  In both the piece moved stood on the    *)
(* selected square.  (A move replayed after an undo that reproduces the    *)
(* snapshot it had produced before is the same step as a redo.)            *)
(***************************************************************************)
PlyFinalized ==
    /\ selectedPiece # NoPos
    /\ history'.snapshots # history.snapshots
    /\ Len(moveHistory') = Len(moveHistory) + 1
    /\ pendingPromotion' = pendingPromotion

PromotionEntered ==
    /\ selectedPiece # NoPos
    /\ history' = history
    /\ board' # board
    /\ pendingPromotion' # NoPromotion

LastMove(moves) == moves[Len(moves)]

OneSnapshotAppended ==
    /\ Len(history'.snapshots) = Cursor + 2
    /\ SubSeq(history'.snapshots, 1, Cursor + 1) = SubSeq(history.snapshots, 1, Cursor + 1)
    /\ history'.currentSnapshotIndex = Cursor + 1

OneMoveAppended == SubSeq(moveHistory', 1, Len(moveHistory)) = moveHistory

\* The step is a finalized move of the selected king by two files.
CastlingStep ==
    /\ PlyFinalized
    /\ board.squares[selectedPiece].type = "king"
    /\ Abs(Col(LastMove(moveHistory').to) - Col(selectedPiece)) = 2

Castled(from, to) ==
    LET color == board.squares[from].color
        kingside == Col(to) > Col(from)
        corner == Pos(Row(from), IF kingside THEN 7 ELSE 0)
        crossed == Pos(Row(from), IF kingside THEN 5 ELSE 3)
        rights == board.castlingRights
    IN  /\ Col(to) = (IF kingside THEN 6 ELSE 2)
        /\ Row(to) = Row(from)
        /\ board'.squares = [board.squares EXCEPT ![from] = NoPiece,
                                                   ![corner] = NoPiece,
                                                   ![to] = Piece("king", color, TRUE),
                                                   ![crossed] = Piece("rook", color, TRUE)]
        /\ board'.castlingRights =
               (IF color = White
                THEN [rights EXCEPT !.whiteKingside = FALSE, !.whiteQueenside = FALSE]
                ELSE [rights EXCEPT !.blackKingside = FALSE, !.blackQueenside = FALSE])
        /\ LastMove(moveHistory').type =
               (IF kingside THEN "castle_kingside" ELSE "castle_queenside")
        /\ LastMove(moveHistory').from = from
        /\ OneMoveAppended
        /\ OneSnapshotAppended

\* C12: a successful makeMove to a castling destination moves, in the one step,
\* the king two files and the rook from its corner to the square the king crossed,
\* marks both as moved, clears both castling rights of the colour, and records one
\* move of type castle_kingside/castle_queenside and one snapshot.
C12_CastlingIsOneStep ==
    [][CastlingStep => Castled(selectedPiece, LastMove(moveHistory').to)]_vars

\* Both sides have castled queenside: kings on c1 and c8, rooks on d1 and d8.
C12_Witness ==
    /\ Len(moveHistory) > 0
    /\ LastMove(moveHistory).type = "castle_queenside"
    /\ board.squares[Sq("c", 1)] = Piece("king", White, TRUE)
    /\ board.squares[Sq("d", 1)] = Piece("rook", White, TRUE)
    /\ board.squares[Sq("c", 8)] = Piece("king", Black, TRUE)
    /\ board.squares[Sq("d", 8)] = Piece("rook", Black, TRUE)

(***************************************************************************)
(* En passant.                                                             *)
(***************************************************************************)
\* The last move made was a two-square advance of a pawn that still stands
\* where it landed; the player to move is the other side.
TwoSquareAdvanceJustMade ==
    /\ Len(moveHistory) > 0
    /\ board.squares[LastMove(moveHistory).to].type = "pawn"
    /\ board.squares[LastMove(moveHistory).to].color = Opponent(currentPlayer)
    /\ Col(LastMove(moveHistory).to) = Col(LastMove(moveHistory).from)
    /\ Abs(Row(LastMove(moveHistory).to) - Row(LastMove(moveHistory).from)) = 2

AdvancedTo == LastMove(moveHistory).to

PassedOver ==
    Pos((Row(LastMove(moveHistory).to) + Row(LastMove(moveHistory).from)) \div 2,
        Col(LastMove(moveHistory).to))

\* The pawns of the player to move that stand beside the square sq on its rank.
PawnsBeside(sq) ==
    {s \in Squares : /\ Row(s) = Row(sq)
                     /\ Abs(Col(s) - Col(sq)) = 1
                     /\ board.squares[s].type = "pawn"
                     /\ board.squares[s].color = currentPlayer}

\* The squares after the pawn on s has taken the pawn on `taken` in passing.
AfterEnPassant(s, to, taken) ==
    [board.squares EXCEPT ![s] = NoPiece, ![taken] = NoPiece,
                          ![to] = Piece("pawn", currentPlayer, TRUE)]

KingSafeOn(squares, color) ==
    \A k \in Squares :
        (squares[k].type = "king" /\ squares[k].color = color)
            => ~AttackedBy(squares, k, Opponent(color))

\* The destinations selectPiece returns for the pawn on s that lie on another
\* file and are empty: captures in passing.
EnPassantDestinations(s) ==
    {to \in ToSet(selectPiece(Game, s).r) : Col(to) # Col(s) /\ board.squares[to] = NoPiece}

PawnsToMove ==
    {s \in Squares : board.squares[s].type = "pawn" /\ board.squares[s].color = currentPlayer}

EnPassantExecuted(s, to, out) ==
    LET taken == Pos(Row(s), Col(to))
        other == Opponent(currentPlayer)
    IN  /\ out.r.success
        /\ out.g.board.squares = AfterEnPassant(s, to, taken)
        /\ out.r.move.type = "en_passant"
        /\ out.r.move.capturedPiece = "pawn"
        /\ out.g.capturedPieces[other] = Append(capturedPieces[other], "pawn")
        /\ out.g.capturedPieces[currentPlayer] = capturedPieces[currentPlayer]

\* C13: when a pawn has advanced two squares and landed beside an enemy pawn,
\* that pawn has the passed-over square among its destinations on the next ply
\* provided the capture does not leave its own king attacked; on no other ply
\* is a capture in passing offered; and executing it puts the capturing pawn on
\* the passed-over square, empties the square of the advanced pawn, records a
\* move of type en_passant with captured piece pawn and adds one pawn to the
\* captured list of the captured pawn's colour.
C13_EnPassant ==
    NoPending =>
        /\ TwoSquareAdvanceJustMade =>
               \A s \in PawnsBeside(AdvancedTo) :
                   KingSafeOn(AfterEnPassant(s, PassedOver, AdvancedTo), currentPlayer)
                       => Contains(selectPiece(Game, s).r, PassedOver)
        /\ \A s \in PawnsToMove : \A to \in EnPassantDestinations(s) :
               /\ TwoSquareAdvanceJustMade
               /\ to = PassedOver
               /\ s \in PawnsBeside(AdvancedTo)
               /\ EnPassantExecuted(s, to, makeMove(selectPiece(Game, s).g, to))

\* The square the piece moved in this step went to.
ExecutedTo ==
    IF PromotionEntered THEN pendingPromotion'.position ELSE LastMove(moveHistory').to

TargetAfter(from, to) ==
    IF board.squares[from].type = "pawn" /\ Abs(Row(to) - Row(from)) = 2
    THEN Pos((Row(from) + Row(to)) \div 2, Col(to))
    ELSE NoPos

\* C14: after every executed ply, one that enters pending promotion included, the
\* en passant target is set iff the ply was a two-square pawn advance, and is then
\* the square the pawn passed over; so a target set by one ply is cleared or
\* overwritten by the next.
C14_EnPassantTargetLastsOnePly ==
    [][(PlyFinalized \/ PromotionEntered)
          => board'.enPassantTarget = TargetAfter(selectedPiece, ExecutedTo)]_vars

\* The ply before the last was a two-square pawn advance, the last one was not,
\* and the target is cleared.
C14_Witness ==
    /\ Len(moveHistory) >= 2
    /\ NoPending
    /\ Abs(Row(moveHistory[Len(moveHistory) - 1].to)
             - Row(moveHistory[Len(moveHistory) - 1].from)) = 2
    /\ board.squares[moveHistory[Len(moveHistory) - 1].to].type = "pawn"
    /\ Abs(Row(LastMove(moveHistory).to) - Row(LastMove(moveHistory).from)) # 2
    /\ LastMove(moveHistory).from # moveHistory[Len(moveHistory) - 1].to
    /\ board.enPassantTarget = NoPos

\* A promotePawn that succeeds: the pending promotion is cleared, one move and
\* one snapshot are appended.
PromotionCompleted ==
    /\ pendingPromotion # NoPromotion
    /\ pendingPromotion' = NoPromotion
    /\ history'.snapshots # history.snapshots
    /\ Len(moveHistory') = Len(moveHistory) + 1

\* selectPiece, clearSelection and the calls that fail touch the selection at most.
SelectionOnly ==
    UNCHANGED <<board, currentPlayer, status, moveHistory, capturedPieces,
                pendingPromotion, history>>

\* A step of selectPiece, makeMove or promotePawn: neither reset nor navigation.
PlayStep == PlyFinalized \/ PromotionEntered \/ PromotionCompleted \/ SelectionOnly

CastlingFlags == {"whiteKingside", "whiteQueenside", "blackKingside", "blackQueenside"}

\* C15: under selectPiece, makeMove and promotePawn a castling-right flag that is
\* false stays false.
C15_CastlingRightsNeverReturn ==
    [][PlayStep => \A flag \in CastlingFlags :
                       ~board.castlingRights[flag] => ~board'.castlingRights[flag]]_vars

\* Both of white's rights and both of black's have been cleared, one colour
\* after the other.
C15_Witness ==
    /\ \A flag \in CastlingFlags : ~board.castlingRights[flag]
    /\ Len(moveHistory) > 0
    /\ NoPending

(***************************************************************************)
(* The starting position.                                                  *)
(***************************************************************************)
AtStart == board = setupStandardPosition /\ currentPlayer = White /\ NoPending

\* All destinations in a list that getAllValidMoves returned, piece after piece.
AllDestinations(all) == Flatten([i \in 1 .. Len(all) |-> all[i].moves])

\* Those of the pieces of one type.
DestinationsOf(all, squares, type) ==
    Flatten([i \in 1 .. Len(all) |->
                IF squares[all[i].piece].type = type THEN all[i].moves ELSE <<>>])

\* 20 moves: 16 of pawns and 4 of knights.
TwentyMoves(all, squares) ==
    /\ Len(AllDestinations(all)) = 20
    /\ Len(DestinationsOf(all, squares, "pawn")) = 16
    /\ Len(DestinationsOf(all, squares, "knight")) = 4

\* C16: from the starting position getAllValidMoves lists exactly 20 moves for
\* white, 16 of pawns and 4 of knights, and after each of them exactly 20 moves
\* for black.
C16_TwentyMovesAtStart ==
    AtStart =>
        LET all == getAllValidMoves(Game)
        IN  /\ TwentyMoves(all, board.squares)
            /\ \A i \in 1 .. Len(all) : \A to \in ToSet(all[i].moves) :
                   LET out == makeMove(selectPiece(Game, all[i].piece).g, to)
                       next == getAllValidMoves(out.g)
                   IN  /\ out.r.success
                       /\ out.g.currentPlayer = Black
                       /\ TwentyMoves(next, out.g.board.squares)

\* The game has been played and brought back to the starting position.
C16_Witness ==
    /\ AtStart
    /\ Len(history.snapshots) > 1
    /\ TwentyMoves(getAllValidMoves(Game), board.squares)

\* 1.f3 e5 2.g4 Qh4
FoolsMate == MateLine.moves

\* The moves made so far are the first k plies of the fool's mate.
Played(k) ==
    /\ NoPending
    /\ Len(moveHistory) = k
    /\ \A i \in 1 .. k : /\ moveHistory[i].from = FoolsMate[i].from
                         /\ moveHistory[i].to = FoolsMate[i].to

\* C17: 1.f3 e5 2.g4 Qh4 from the starting position succeeds at every step
\* through selectPiece and makeMove and ends with white to move, white without a
\* legal move, status checkmate, isGameOver() true and getWinner() black.
C17_FoolsMate ==
    /\ \A k \in 0 .. 3 :
           Played(k) =>
               LET selected == selectPiece(Game, FoolsMate[k + 1].from)
                   out == makeMove(selected.g, FoolsMate[k + 1].to)
               IN  /\ Contains(selected.r, FoolsMate[k + 1].to)
                   /\ out.r.success
                   /\ ~out.r.needsPromotion
                   /\ out.r.move.from = FoolsMate[k + 1].from
                   /\ out.r.move.to = FoolsMate[k + 1].to
    /\ Played(4) =>
           /\ currentPlayer = White
           /\ getAllValidMoves(Game) = <<>>
           /\ status = "checkmate"
           /\ isGameOver(Game)
           /\ getWinner(Game) = Black

\* The four plies have been played and white is mated.
C17_Witness == Played(4) /\ status = "checkmate" /\ selectedPiece = NoPos

\* The indices just outside the snapshot log, on both sides.
OutOfRange == {0 - 2, 0 - 1, Len(history.snapshots), Len(history.snapshots) + 1}

\* The navigation call returned false and left the whole game, cursor and
\* snapshot log included, as it was.
Refused(out) == out.r = FALSE /\ out.g = Game

\* C18: undoMove() at snapshot 0, redoMove() at the last snapshot and
\* goToHistoryPoint(i) with i < 0 or i >= the number of snapshots return false
\* and leave the cursor, the snapshot log and the live game state unchanged.
C18_OutOfRangeNavigationIsNoOp ==
    /\ Cursor = 0 => Refused(undoMove(Game))
    /\ Cursor = LatestIndex => Refused(redoMove(Game))
    /\ \A i \in OutOfRange : Refused(goToHistoryPoint(Game, i))

\* The cursor is back at snapshot 0 of a log that holds later snapshots, with
\* a piece selected in the live game.
C18_Witness ==
    /\ Cursor = 0
    /\ LatestIndex > 0
    /\ selectedPiece # NoPos
    /\ Refused(undoMove(Game))

\* The number of pieces of one colour standing on the board.
OnBoard(squares, color) == Cardinality({sq \in Squares : squares[sq].color = color})

Colors == {White, Black}

\* C19: in every reachable state, for each colour, the pieces of that colour on
\* the board and the entries of capturedPieces[colour] add up to 16: a capture
\* adds one entry for the captured piece and promotion changes neither count.
C19_SixteenPerColor ==
    \A color \in Colors :
        OnBoard(board.squares, color) + Len(capturedPieces[color]) = 16

\* The squares where a king of the colour stands.
KingSquares(squares, color) ==
    {sq \in Squares : squares[sq].type = "king" /\ squares[sq].color = color}

\* C20: in every state reachable from the standard start through selectPiece,
\* makeMove, promotePawn and history navigation the board holds exactly one
\* white king and exactly one black king, and no king is in capturedPieces.
C20_OneKingEach ==
    \A color \in Colors :
        /\ Cardinality(KingSquares(board.squares, color)) = 1
        /\ ~Contains(capturedPieces[color], "king")

\* The step has put a snapshot at the end of the log (after truncating it at
\* the cursor) or has cleared the log and put the first snapshot.
Appended ==
    /\ history'.snapshots # history.snapshots
    /\ history'.currentSnapshotIndex = Len(history'.snapshots) - 1

AIs == [difficulty : Difficulties, color : Colors]

\* selectPiece(from) lists `to` and makeMove(to) then succeeds.
Playable(g, from, to) ==
    LET selected == selectPiece(g, from)
    IN  /\ Contains(selected.r, to)
        /\ makeMove(selected.g, to).r.success

\* C22: for every difficulty tier and every reachable game state, getBestMove
\* returns null iff the side to move has no legal move; otherwise it returns
\* (from, to) with `to` a legal destination of the piece on `from`, so that
\* selectPiece(from) followed by makeMove(to) succeeds.
C22_BestMoveIsLegal ==
    LET answers == {[ai |-> ai, best |-> getBestMove(ai, Game)] : ai \in AIs}
        returned == UNION {a.best : a \in answers} \ {NoAIMove}
    IN  /\ \A a \in answers :
               IF LegalMoveExists(Game)
               THEN a.best # {} /\ NoAIMove \notin a.best
               ELSE a.best = {NoAIMove}
        /\ \A pair \in {<<m.from, m.to>> : m \in returned} :
               Playable(Game, pair[1], pair[2])

\* The player to move is in check and the Hard tier answers with a move that
\* can be played.
C22_Witness ==
    /\ status = "check"
    /\ \E m \in getBestMove([difficulty |-> "hard", color |-> currentPlayer], Game) :
           m # NoAIMove /\ Playable(Game, m.from, m.to)

\* C24: the move getBestMove returns has a piece of the AI's configured colour
\* on its from-square, whichever player is to move in the game passed in.
C24_BestMoveIsOfAIColor ==
    \A ai \in AIs : \A m \in getBestMove(ai, Game) \ {NoAIMove} :
        board.squares[m.from].color = ai.color

\* The position that results from playing a candidate: the game after
\* selectPiece(piece) and makeMove(to).
Resulting(g, piece, to) == makeMove(selectPiece(g, piece).g, to).g

\* The Hard tiers asked on their own turn.
HardOnTurn == {ai \in AIs : ai.difficulty = "hard" /\ ai.color = currentPlayer}

\* C25: in the Hard tier the score of a candidate is its per-move heuristic
\* plus half the material+position differential, check bonus included, of the
\* position that results from playing it (scores in halves).
C25_HardScoresTheResultingPosition ==
    \A ai \in HardOnTurn :
        LET candidates == Candidates(getAllValidMoves(Game))
        IN  \A k \in 1 .. Len(candidates) :
                evaluateMoveWithLookahead(ai, Game, candidates[k].piece, candidates[k].to, 3)
                    = 2 * evaluateMove(Game, candidates[k].piece, candidates[k].to)
                          + evaluateBoardPosition(
                                ai, Resulting(Game, candidates[k].piece, candidates[k].to))

\* The entry of the piece type's table, 0 for the types without a table.
TableEntry(type, row, col) ==
    CASE type = "pawn" -> PAWN_TABLE[row + 1][col + 1]
      [] type = "knight" -> KNIGHT_TABLE[row + 1][col + 1]
      [] type = "bishop" -> BISHOP_TABLE[row + 1][col + 1]
      [] type = "king" -> KING_TABLE[row + 1][col + 1]
      [] OTHER -> 0

\* C26: the positional bonus of every piece on the board is TABLE[row][col] of
\* its type's table for a white piece, TABLE[7-row][col] for a black one, and 0
\* for a rook or queen.
C26_PositionBonusByTable ==
    \A sq \in Squares :
        LET p == board.squares[sq]
        IN  p # NoPiece =>
                getPositionBonus(p.type, sq, p.color)
                    = TableEntry(p.type, IF p.color = White THEN Row(sq) ELSE 7 - Row(sq),
                                 Col(sq))

\* The greatest of a non-empty set of numbers.
Greatest(S) == CHOOSE n \in S : \A other \in S : other <= n

\* The static heuristic scores of the legal moves of the side to move.
StaticScores(candidates) ==
    {evaluateMove(Game, candidates[k].piece, candidates[k].to) : k \in 1 .. Len(candidates)}

HardAIs == {ai \in AIs : ai.difficulty = "hard"}

\* The candidates with their Hard scores, by place in the enumeration.
Scored(ai, candidates) ==
    {[k |-> k,
      score |-> evaluateMoveWithLookahead(ai, Game, candidates[k].piece, candidates[k].to, 3)] :
        k \in 1 .. Len(candidates)}

\* The first place in the enumeration that attains the greatest score.
FirstMaximal(scored) ==
    LET maximal == Greatest({s.score : s \in scored})
    IN  Greatest({0 - s.k : s \in {t \in scored : t.score = maximal}}) * (0 - 1)

\* C28: the Hard tier is deterministic: in a given game state getBestMove can
\* return one (from, to) only, the first move in enumeration order (pieces
\* row-major, each piece's moves in generation order) that attains the
\* maximal score.
C28_HardReturnsFirstMaximal ==
    LET candidates == Candidates(getAllValidMoves(Game))
    IN  Len(candidates) > 0 =>
            \A ai \in HardAIs :
                LET first == candidates[FirstMaximal(Scored(ai, candidates))]
                IN  {<<m.from, m.to>> : m \in getBestMove(ai, Game)}
                        = {<<first.piece, first.to>>}

\* Several candidates attain the maximal score, and the first of them is not
\* the first candidate of the enumeration.
C28_Witness ==
    LET candidates == Candidates(getAllValidMoves(Game))
    IN  /\ Len(candidates) > 0
        /\ \E ai \in HardAIs :
               LET scored == Scored(ai, candidates)
                   maximal == Greatest({s.score : s \in scored})
               IN  /\ Cardinality({s \in scored : s.score = maximal}) > 1
                   /\ FirstMaximal(scored) > 1

\* getRandomMove draws randomPieceIndex among allMoves.length values and then
\* randomMoveIndex among the moves.length values of that piece, each draw
\* uniform: the i-th piece's moves are returned one time in OneIn(allMoves, i).
OneIn(allMoves, i) == Len(allMoves) * Len(allMoves[i].moves)

\* C29: the Easy tier selects every legal move of the side to move with the
\* same probability 1/N, N the total number of legal moves over all pieces,
\* however many legal moves the moving piece has.
C29_EasyIsUniform ==
    LET allMoves == getAllValidMoves(Game)
    IN  \A i \in 1 .. Len(allMoves) :
            OneIn(allMoves, i) = Len(Candidates(allMoves))

\* The piece type that starts on a column of the back ranks.
HomeType(col) ==
    CASE col \in {0, 7} -> "rook"
      [] col \in {1, 6} -> "knight"
      [] col \in {2, 5} -> "bishop"
      [] col = 3 -> "queen"
      [] col = 4 -> "king"

\* The standard layout, all pieces unmoved.
StandardLayout(squares) ==
    \A sq \in Squares :
        squares[sq] =
            CASE Row(sq) = 0 -> [type |-> HomeType(Col(sq)), color |-> Black, hasMoved |-> FALSE]
              [] Row(sq) = 1 -> [type |-> "pawn", color |-> Black, hasMoved |-> FALSE]
              [] Row(sq) = 6 -> [type |-> "pawn", color |-> White, hasMoved |-> FALSE]
              [] Row(sq) = 7 -> [type |-> HomeType(Col(sq)), color |-> White, hasMoved |-> FALSE]
              [] OTHER -> NoPiece

\* C30: from any reachable state (a pending promotion, a terminal status and
\* a cursor in the middle of the log included) reset() yields the standard
\* layout with all pieces unmoved, white to move, status in progress, empty
\* moveHistory and captured lists, no selection, no pending promotion, all four
\* castling rights, no en-passant target, and a snapshot log of exactly one
\* entry (move = null) with the cursor at 0.
C30_ResetYieldsTheStart ==
    LET g == reset(Game)
    IN  /\ StandardLayout(g.board.squares)
        /\ g.currentPlayer = White
        /\ g.status = "in_progress"
        /\ g.moveHistory = <<>>
        /\ g.capturedPieces.white = <<>>
        /\ g.capturedPieces.black = <<>>
        /\ g.selectedPiece = NoPos
        /\ g.pendingPromotion = NoPromotion
        /\ g.board.castlingRights.whiteKingside
        /\ g.board.castlingRights.whiteQueenside
        /\ g.board.castlingRights.blackKingside
        /\ g.board.castlingRights.blackQueenside
        /\ g.board.enPassantTarget = NoPos
        /\ Len(g.history.snapshots) = 1
        /\ g.history.snapshots[1].move = NoMove
        /\ g.history.currentSnapshotIndex = 0

\* A promotion is pending with the cursor in the middle of the log, after a
\* capture, and reset() changes every one of the fields it sets.
C30_Witness ==
    /\ pendingPromotion # NoPromotion
    /\ Cursor < Len(history.snapshots) - 1
    /\ Len(capturedPieces.white) + Len(capturedPieces.black) > 0
    /\ reset(Game).board # board
    /\ reset(Game).history # history

\* The moves a result of the object operations names, by the squares of the
\* live board.
BySquare(w, result) ==
    [i \in 1 .. Len(result) |->
        [piece |-> CHOOSE sq \in Squares : w.board.squares[sq] = result[i].piece,
         moves |-> result[i].moves]]

\* The calls, made on the game of the current state, leave it as it was and
\* find the same moves as on the board taken as a value.
LeftAlone ==
    LET o == GameObjects(Game)
        all == getAllValidMovesObjects(o)
    IN  /\ all.o = o
        /\ GameData(all.o) = Game
        /\ BySquare(o.board, all.result) = getAllValidMoves(Game)
        /\ \A ai \in AIs : getBestMoveObjects(ai, o).o = o
        /\ \A position \in Squares :
               LET selected == selectPieceObjects(o, position)
               IN  /\ [selected.o EXCEPT !.selectedPiece = o.selectedPiece] = o
                   /\ selected.result = selectPiece(Game, position).r

\* C23: getBestMove (all tiers), getAllValidMoves and selectPiece's legality
\* filtering never mutate the live game: board squares, hasMoved flags,
\* en-passant target, castling rights, currentPlayer, status, moveHistory,
\* capturedPieces and the snapshot log are the same before and after the call
\* (getBestMove also leaves the selection unchanged), in every state a game
\* comes to.
C23_SimulationsLeaveTheGameAlone == []LeftAlone

\* The player to move is in check, the filter drops a move of a piece and
\* keeps a move of a piece that has not moved yet.
C23_Witness ==
    /\ status = "check"
    /\ \E from \in Squares :
           /\ board.squares[from].color = currentPlayer
           /\ Len(getValidMovesForPiece(board, from))
                  < Len(getPossibleMoves(board.squares, from, board.enPassantTarget))
    /\ \E from \in Squares :
           /\ board.squares[from].color = currentPlayer
           /\ ~board.squares[from].hasMoved
           /\ Len(getValidMovesForPiece(board, from)) > 0

\* The last element of a non-empty sequence.
Last(seq) == seq[Len(seq)]

\* The Move a promotion of the pawn on `from`, arriving on `to`, is to record.
PromotionRecord(from, to, pieceType) ==
    [from |-> from, to |-> to, type |-> "promotion",
     capturedPiece |-> IF board.squares[to] # NoPiece THEN board.squares[to].type ELSE "none",
     promotionPiece |-> pieceType]

\* C31: the Move appended to moveHistory (and stored in the snapshot) for a
\* promotion has from = the square the promoting pawn left on that ply, to =
\* the promotion square, promotionPiece = the chosen type, and capturedPiece =
\* the type of the piece captured on arrival, if any.
C31_PromotionMoveRecord ==
    (selectedPiece # NoPos /\ board.squares[selectedPiece].type = "pawn") =>
        \A to \in ToSet(getValidMovesForPiece(board, selectedPiece)) :
            LET arrived == makeMove(Game, to)
            IN  arrived.r.needsPromotion =>
                    \A pieceType \in PromotionTypes :
                        LET promoted == promotePawn(arrived.g, pieceType).g
                            record == PromotionRecord(selectedPiece, to, pieceType)
                        IN  /\ Last(promoted.moveHistory) = record
                            /\ Last(promoted.history.snapshots).move = record

\* The number of pieces captured so far in a recorded state.
CapturedCount(gameState) ==
    Len(gameState.capturedPieces.white) + Len(gameState.capturedPieces.black)

\* The king has gone `by` columns on the ply of snapshot k (2: kingside,
\* -2: queenside).
KingWent(k, by) ==
    LET snapshot == history.snapshots[k]
    IN  /\ snapshot.gameState.board.squares[snapshot.move.to].type = "king"
        /\ Row(snapshot.move.to) = Row(snapshot.move.from)
        /\ Col(snapshot.move.to) - Col(snapshot.move.from) = by

\* The notations of castling, by side and suffix.
CastleNotations(side) == {<<side>>, <<side \o "+">>, <<side \o "#">>}

Suffixed(notation, mark) ==
    \/ Last(notation) = mark
    \/ notation \in {<<"O-O" \o mark>>, <<"O-O-O" \o mark>>}

\* C32: for every snapshot with a non-null move, the notation contains the
\* capture marker 'x' iff that ply captured a piece (ordinary capture, en
\* passant, or a capturing promotion), ends with '#' iff the resulting status
\* is checkmate, ends with '+' iff the resulting status is check, and is
\* 'O-O' / 'O-O-O' (plus that suffix) iff the ply was kingside / queenside
\* castling.
C32_NotationMarks ==
    \A k \in 2 .. Len(history.snapshots) :
        LET snapshot == history.snapshots[k]
            notation == snapshot.notation
        IN  /\ notation # <<>>
            /\ Contains(notation, "x")
                   <=> CapturedCount(snapshot.gameState)
                           > CapturedCount(history.snapshots[k - 1].gameState)
            /\ Suffixed(notation, "#") <=> snapshot.gameState.status = "checkmate"
            /\ Suffixed(notation, "+") <=> snapshot.gameState.status = "check"
            /\ notation \in CastleNotations("O-O") <=> KingWent(k, 2)
            /\ notation \in CastleNotations("O-O-O") <=> KingWent(k, 0 - 2)

\* The game g has the board, the player to move and the status of the
\* current state.
Fixed(g) ==
    /\ g.board = board
    /\ g.currentPlayer = currentPlayer
    /\ g.status = status

\* C33: once status is checkmate or stalemate, every selectPiece returns no
\* destinations and every makeMove fails, so board, currentPlayer and status
\* stay fixed until undoMove, goToStart, goToHistoryPoint or reset is called:
\* no other call changes them.
C33_TerminalStatusIsFinal ==
    status \in {"checkmate", "stalemate"} =>
        /\ \A position \in Squares :
               LET selected == selectPiece(Game, position)
               IN  /\ selected.r = <<>>
                   /\ Fixed(selected.g)
                   /\ \A to \in Squares :
                          LET moved == makeMove(selected.g, to)
                          IN  ~moved.r.success /\ Fixed(moved.g)
        /\ \A to \in Squares : ~makeMove(Game, to).r.success
        /\ Fixed(clearSelection(Game))
        /\ \A pieceType \in PromotionTypes : Fixed(promotePawn(Game, pieceType).g)
        /\ Fixed(redoMove(Game).g)
        /\ Fixed(goToLatest(Game).g)

\* C34: in every reachable state with no promotion pending, the live GameState
\* returned by getState() equals by value the gameState stored in the snapshot
\* at the history cursor.
C34_LiveStateIsTheSnapshotAtCursor ==
    pendingPromotion = NoPromotion =>
        getState(Game) = history.snapshots[Cursor + 1].gameState

\* The cursor stands inside the log after a capture and a castling-right loss,
\* on a snapshot that is not the start.
C34_Witness ==
    /\ pendingPromotion = NoPromotion
    /\ Cursor > 0
    /\ Cursor < Len(history.snapshots) - 1
    /\ Len(capturedPieces.white) + Len(capturedPieces.black) > 0
    /\ board.castlingRights # AllCastlingRights

\* C35: for every index k >= 1 of the snapshot log, snapshot k's
\* gameState.moveHistory is snapshot k-1's moveHistory with snapshot k's move
\* appended, and snapshot k's currentPlayer is the opposite of snapshot k-1's,
\* after any interleaving of moves, promotions, undo/redo/jumps and branching.
C35_SnapshotsChain ==
    \A k \in 2 .. Len(history.snapshots) :
        LET this == history.snapshots[k]
            previous == history.snapshots[k - 1]
        IN  /\ this.gameState.moveHistory
                   = Append(previous.gameState.moveHistory, this.move)
            /\ this.gameState.currentPlayer = Opponent(previous.gameState.currentPlayer)

\* The log holds a promotion, the cursor stands before the end of the log, and
\* a piece is selected for the ply that will cut the log.
C35_Witness ==
    /\ \E k \in 2 .. Len(history.snapshots) : history.snapshots[k].move.type = "promotion"
    /\ Cursor > 0
    /\ Cursor < Len(history.snapshots) - 1
    /\ selectedPiece # NoPos

\* C36: in every state reachable after a Game is constructed, the log holds at
\* least one snapshot, 0 <= cursor <= length-1, snapshot k has moveNumber k, and
\* snapshot 0 is the only snapshot whose move is null.
C36_LogIsWellFormed ==
    /\ Len(history.snapshots) >= 1
    /\ 0 <= Cursor
    /\ Cursor <= Len(history.snapshots) - 1
    /\ \A k \in 0 .. Len(history.snapshots) - 1 :
           /\ history.snapshots[k + 1].moveNumber = k
           /\ (history.snapshots[k + 1].move = NoMove) <=> (k = 0)

\* The cursor stands inside a log of four snapshots or more and a pawn waits
\* for its promotion, which will cut the log.
C36_Witness ==
    /\ Len(history.snapshots) >= 4
    /\ Cursor >= 1
    /\ Cursor < Len(history.snapshots) - 1
    /\ pendingPromotion # NoPromotion

\* C37: in AI mode (the AI plays black), under every interleaving of the
\* user's events (board clicks, promotion choice, the history buttons start,
\* back, forward and end, history-item clicks) with the AI's thinking delay,
\* every ply executed by makeAIMove moves a black piece; the AI never executes
\* a white ply.
AIExecutesPly == ui'.thinking < ui.thinking /\ moveHistory' # moveHistory

C37_AIMovesBlackOnly ==
    [][AIExecutesPly => board'.squares[Last(moveHistory').to].color = Black]_vars

\* C38: in the legacy engine, from the board produced by
\* ChessBoard.createStandard(), every pawn that has not yet been moved in the
\* game has a two-square advance among its valid moves when both squares in
\* front of it are empty, so white starts with 20 legal moves.
LegacyMoveCount(c) ==
    LET Count[sq \in 0 .. BOARD_SIZE * BOARD_SIZE] ==
            IF sq = BOARD_SIZE * BOARD_SIZE THEN 0
            ELSE Count[sq + 1]
                 + (IF c.board[sq] # NoPiece /\ c.board[sq].color = c.currentPlayer
                    THEN Cardinality(GameController_getValidMovesForPiece(c, sq))
                    ELSE 0)
    IN  Count[0]

\* A pawn of the side to move that stands where initializeBoard put it, with
\* the two squares in front of it empty.
UnmovedFreePawn(c, sq) ==
    LET direction == IF c.board[sq].color = White THEN 0 - 1 ELSE 1
    IN  /\ c.board[sq].type = "pawn"
        /\ c.board[sq].color = c.currentPlayer
        /\ Row(sq) = (IF c.board[sq].color = White THEN 6 ELSE 1)
        /\ c.board[Pos(Row(sq) + direction, Col(sq))] = NoPiece
        /\ c.board[Pos(Row(sq) + 2 * direction, Col(sq))] = NoPiece

C38_UnmovedPawnsAdvanceTwo ==
    /\ \A sq \in Squares :
           UnmovedFreePawn(legacy, sq) =>
               LET direction == IF legacy.board[sq].color = White THEN 0 - 1 ELSE 1
                   twoForward == Pos(Row(sq) + 2 * direction, Col(sq))
               IN  \/ twoForward \in GameController_getValidMovesForPiece(legacy, sq)
                   \/ GameController_wouldMoveLeaveKingInCheck(
                          legacy.board, legacy.enPassantTarget, sq, twoForward)
    /\ legacy = NewChessGame => LegacyMoveCount(legacy) = 20

\* C39: in the legacy engine, after goBack, goForward or goToMove lands on
\* history entry i, the controller's state (board placement, side to move,
\* en-passant target and captured-piece lists) equals the state that held
\* immediately after move i was originally executed.
LandsOnEntry ==
    /\ legacy'.moveHistory = legacy.moveHistory
    /\ legacy'.historyManager.currentIndex # legacy.historyManager.currentIndex

C39_NavigationRestoresTheState ==
    [][LandsOnEntry =>
          ControllerState(legacy') = legacy'.held[legacy'.historyManager.currentIndex + 1]]_vars

====
